---- MODULE Spec2Model ----
(***************************************************************************)
(* Model of the design-data normaliser (src/app.py, src/api/index.py), of   *)
(* the design-file reader (src/gemini_json_reader.py), of the layout pass  *)
(* with its entry point process_gemini_json_for_spaceplanning              *)
(* (src/dynamo_spaceplanning_integration.py) and of the deployed layout    *)
(* pass (src/deployment/dynamo_spaceplanning_integration.py).              *)
(*                                                                         *)
(* Lengths are integers in centimetres: 2 m is 200, 2.2 m is 220, 0.3 m is *)
(* 30.  A JSON mapping is a function whose DOMAIN is the set of keys that  *)
(* are present; a JSON list is a sequence.  A JSON scalar that the code    *)
(* uses as a number is a record [kind, val], so that a string or a null    *)
(* in the place of a number is a value of the model.                       *)
(***************************************************************************)
EXTENDS Integers, Sequences, FiniteSets, TLC

VARIABLES input,        \* the mapping the caller first passed to the normaliser
          design_data,  \* the mapping the normaliser updates in place
          status,       \* "input", "returned" or "raised": how the last call ended
          calls,        \* number of calls of the normaliser so far
          history,      \* the documents the calls returned, in order
          data,         \* GeminiJsonReader.data
          departments,  \* the list get_department_data returned
          reader_pc,    \* "idle", "loaded" or "done"
          kpu_dimensions,  \* what GeminiJsonReader.get_kpu_dimensions returned, <<>> before the call
          json_file,    \* what is stored at json_path: nothing, text that is no JSON, or a document
          args,         \* the arguments of the last call of process_gemini_json_for_spaceplanning
          design_params,          \* DynamoSpaceplanningIntegrator.design_params
          DYNAMO_CORE_AVAILABLE,  \* the module flag set by the import of DynamoCore
          polygon_has_width,      \* whether the host's Polygon answers .Width
          design_seed,            \* the design_seed argument of the current run
          layout_pc,              \* position of the current run in the pipeline
          placed_departments,     \* the department data stack of the current run
          circulation,            \* what create_circulation_network returned
          geometry_3d,            \* what generate_3d_geometry returned
          results,                \* what run_complete_spaceplanning returned
          runs                    \* the runs that ended before the current one

process_vars == <<json_file, args>>

layout_vars == <<design_params, DYNAMO_CORE_AVAILABLE, polygon_has_width, design_seed,
                 layout_pc, placed_departments, circulation, geometry_3d, results, runs,
                 process_vars>>

vars == <<input, design_data, status, calls, history, data, departments, reader_pc,
          kpu_dimensions, json_file, args,
          design_params, DYNAMO_CORE_AVAILABLE, polygon_has_width, design_seed,
          layout_pc, placed_departments, circulation, geometry_3d, results, runs>>

normalizer_vars == <<input, design_data, status, calls, history>>
reader_vars == <<data, departments, reader_pc, kpu_dimensions>>

-----------------------------------------------------------------------------
(* Bounds of the model *)

MaxRooms == 2
MaxCalls == 2

MaxDepts == 5
MaxRuns == 3
MaxProcessCalls == 2

-----------------------------------------------------------------------------
(* JSON values and the Python built-ins the code applies to them *)

Num(n) == [kind |-> "number", val |-> n]
Str == [kind |-> "string", val |-> 0]
Null == [kind |-> "null", val |-> 0]
IsNumber(v) == v.kind = "number"

Has(m, k) == k \in DOMAIN m
Get(m, k, default) == IF k \in DOMAIN m THEN m[k] ELSE default
Put(m, k, v) == [x \in (DOMAIN m) \cup {k} |-> IF x = k THEN v ELSE m[x]]

\* min(...) and max(...) over a non-empty collection of numbers
MinOf(S) == CHOOSE m \in S : \A v \in S : m <= v
MaxOf(S) == CHOOSE m \in S : \A v \in S : m >= v

\* min(a, b) and max(a, b) of Python: the first argument wins a tie
PyMin(a, b) == IF b < a THEN b ELSE a
PyMax(a, b) == IF b > a THEN b ELSE a

Point(x, y, z) == [x |-> x, y |-> y, z |-> z]
Origin == Point(0, 0, 0)

-----------------------------------------------------------------------------
(* src/app.py: validate_and_enhance_design and its helpers *)

DefaultProject == [name |-> "Generated Building", style |-> "modern", floors |-> 1]

DefaultRoom ==
  [k \in {"name", "floor", "width", "depth", "height", "position", "shape"} |->
     CASE k = "name" -> "Living Room"
       [] k = "floor" -> Num(1)
       [] k = "width" -> Num(600)
       [] k = "depth" -> Num(500)
       [] k = "height" -> Num(300)
       [] k = "position" -> Origin
       [] k = "shape" -> "rectangle"]

DefaultExterior ==
  [roof |-> [type |-> "gabled", pitch |-> 30],
   facade |-> [material |-> "brick", color |-> "red"]]

\* ClampField without the lower bound: room[k] = min(hi, room.get(k, dflt))
ClampFieldNoFloor(room, k, lo, hi, dflt) ==
  Put(room, k, Num(PyMin(hi, Get(room, k, Num(dflt)).val)))

\* ClampField that adds the wall thickness before it clamps
ClampFieldPadded(room, k, lo, hi, dflt) ==
  Put(room, k, Num(PyMax(lo, PyMin(hi, Get(room, k, Num(dflt)).val + 20))))

\* room[k] = max(lo, min(hi, room.get(k, dflt)))
ClampField(room, k, lo, hi, dflt) ==
  Put(room, k, Num(PyMax(lo, PyMin(hi, Get(room, k, Num(dflt)).val))))

\* min(hi, v) raises TypeError when v is a string or None
FieldRaises(room, k) == Has(room, k) /\ ~IsNumber(room[k])

ClampWidth(room) == ClampField(room, "width", 200, 1500, 400)
ClampDepth(room) == ClampField(room, "depth", 200, 1500, 400)
ClampHeight(room) == ClampField(room, "height", 220, 500, 300)

\* One iteration of the loop over the rooms.  The room is updated in place,
\* so a TypeError leaves the assignments before it done.
DefaultPositionAndShape(room) ==
  [k \in (DOMAIN room) \cup {"position", "shape"} |->
     IF k \in DOMAIN room THEN room[k]
     ELSE IF k = "position" THEN Origin ELSE "rectangle"]

ValidateHeight(room) ==
  IF FieldRaises(room, "height") THEN [raised |-> TRUE, room |-> room]
  ELSE [raised |-> FALSE, room |-> DefaultPositionAndShape(ClampHeight(room))]

ValidateDepth(room) ==
  IF FieldRaises(room, "depth") THEN [raised |-> TRUE, room |-> room]
  ELSE ValidateHeight(ClampDepth(room))

ValidateRoom(room) ==
  IF FieldRaises(room, "width") THEN [raised |-> TRUE, room |-> room]
  ELSE ValidateDepth(ClampWidth(room))

RECURSIVE ValidateRooms(_)
ValidateRooms(rooms) ==
  IF rooms = <<>> THEN [raised |-> FALSE, rooms |-> <<>>]
  ELSE LET first == ValidateRoom(Head(rooms)) IN
    IF first.raised
    THEN [raised |-> TRUE, rooms |-> <<first.room>> \o Tail(rooms)]
    ELSE LET rest == ValidateRooms(Tail(rooms))
         IN [raised |-> rest.raised, rooms |-> <<first.room>> \o rest.rooms]

Wall(start, end, h) == [start |-> start, end |-> end, height |-> h, thickness |-> 20]

\* RoomWalls whose third wall ends at the corner it starts from
RoomWallsOpenLoop(room) ==
  LET pos == room["position"]
      w == room["width"].val
      d == room["depth"].val
      h == room["height"]
  IN << Wall(Point(pos.x, pos.y, pos.z), Point(pos.x + w, pos.y, pos.z), h),
        Wall(Point(pos.x + w, pos.y, pos.z), Point(pos.x + w, pos.y + d, pos.z), h),
        Wall(Point(pos.x + w, pos.y + d, pos.z), Point(pos.x + w, pos.y + d, pos.z), h),
        Wall(Point(pos.x, pos.y + d, pos.z), Point(pos.x, pos.y, pos.z), h) >>

RoomWalls(room) ==
  LET pos == room["position"]
      w == room["width"].val
      d == room["depth"].val
      h == room["height"]
  IN << Wall(Point(pos.x, pos.y, pos.z), Point(pos.x + w, pos.y, pos.z), h),
        Wall(Point(pos.x + w, pos.y, pos.z), Point(pos.x + w, pos.y + d, pos.z), h),
        Wall(Point(pos.x + w, pos.y + d, pos.z), Point(pos.x, pos.y + d, pos.z), h),
        Wall(Point(pos.x, pos.y + d, pos.z), Point(pos.x, pos.y, pos.z), h) >>

RECURSIVE generate_walls_from_rooms(_)
generate_walls_from_rooms(rooms) ==
  IF rooms = <<>> THEN <<>>
  ELSE RoomWalls(Head(rooms)) \o generate_walls_from_rooms(Tail(rooms))

\* the opening of the wall at (0-based) index i
BasicOpening(i) ==
  IF i % 2 = 0
  THEN [type |-> "door", wall_id |-> i, position |-> 100, width |-> 90, height |-> 210]
  ELSE [type |-> "window", wall_id |-> i, position |-> 150, width |-> 120, height |-> 100]

\* generate_basic_openings without the cap of 4: one opening for every wall
generate_basic_openings_uncapped(walls) ==
  [j \in 1..Len(walls) |-> BasicOpening(j - 1)]

generate_basic_openings(walls) ==
  [j \in 1..PyMin(Len(walls), 4) |-> BasicOpening(j - 1)]

\* LargeSpan with >= in the place of >
LargeSpanInclusive(room) == room["width"].val >= 800 \/ room["depth"].val >= 800

LargeSpan(room) == room["width"].val > 800 \/ room["depth"].val > 800

Column(room) ==
  LET pos == room["position"] IN
  [type |-> "column",
   position |-> Point(pos.x + room["width"].val \div 2,
                      pos.y + room["depth"].val \div 2, pos.z),
   diameter |-> 30,
   height |-> room["height"]]

RECURSIVE generate_structural_elements(_)
generate_structural_elements(rooms) ==
  IF rooms = <<>> THEN <<>>
  ELSE (IF LargeSpan(Head(rooms)) THEN <<Column(Head(rooms))>> ELSE <<>>)
       \o generate_structural_elements(Tail(rooms))

WallsMissing(d) == ~Has(d, "walls")
OpeningsMissing(d) == ~Has(d, "openings")
StructuralMissing(d) == ~Has(d, "structural")

EnsureProject(d) == IF ~Has(d, "project") THEN Put(d, "project", DefaultProject) ELSE d

EnsureRooms(d) ==
  IF ~Has(d, "rooms") \/ d["rooms"] = <<>> THEN Put(d, "rooms", <<DefaultRoom>>) ELSE d

\* the loop over the rooms; the rooms are updated in place
ValidateRoomsOf(d) ==
  [raised |-> ValidateRooms(d["rooms"]).raised,
   doc |-> Put(d, "rooms", ValidateRooms(d["rooms"]).rooms)]

EnsureWalls(d) ==
  IF WallsMissing(d) THEN Put(d, "walls", generate_walls_from_rooms(d["rooms"])) ELSE d

EnsureOpenings(d) ==
  IF OpeningsMissing(d) THEN Put(d, "openings", generate_basic_openings(d["walls"])) ELSE d

EnsureStructural(d) ==
  IF StructuralMissing(d)
  THEN Put(d, "structural", generate_structural_elements(d["rooms"])) ELSE d

EnsureExterior(d) == IF ~Has(d, "exterior") THEN Put(d, "exterior", DefaultExterior) ELSE d

\* the rest of the function, not reached when the loop over the rooms raised
DeriveSections(res) ==
  IF res.raised THEN res
  ELSE [raised |-> FALSE,
        doc |-> EnsureExterior(EnsureStructural(EnsureOpenings(EnsureWalls(res.doc))))]

validate_and_enhance_design(d) ==
  DeriveSections(ValidateRoomsOf(EnsureRooms(EnsureProject(d))))

-----------------------------------------------------------------------------
(* src/api/index.py: the second copy of the normaliser *)

ApiWall(start, end, h) ==
  [start |-> start, end |-> end, height |-> h, thickness |-> 20, material |-> "concrete"]

\* `not room.get('position')`: the key is absent (an empty mapping or a null
\* would be falsy too; the positions of the model have the keys x, y and z)
ApiNoPosition(room) == ~Has(room, "position")

\* x + width and y + depth raise TypeError when the operand is not a number
ApiRoomRaises(room) ==
  /\ ~ApiNoPosition(room)
  /\ \/ ~IsNumber(Get(room, "width", Num(1000)))
     \/ ~IsNumber(Get(room, "depth", Num(1000)))

ApiRoomWalls(room) ==
  LET pos == room["position"]
      width == Get(room, "width", Num(1000)).val
      depth == Get(room, "depth", Num(1000)).val
      height == Get(room, "height", Num(300))
  IN << ApiWall(Point(pos.x, pos.y, pos.z), Point(pos.x + width, pos.y, pos.z), height),
        ApiWall(Point(pos.x + width, pos.y, pos.z),
                Point(pos.x + width, pos.y + depth, pos.z), height),
        ApiWall(Point(pos.x + width, pos.y + depth, pos.z),
                Point(pos.x, pos.y + depth, pos.z), height),
        ApiWall(Point(pos.x, pos.y + depth, pos.z), Point(pos.x, pos.y, pos.z), height) >>

RECURSIVE api_generate_walls_from_rooms(_)
api_generate_walls_from_rooms(rooms) ==
  IF rooms = <<>> THEN [raised |-> FALSE, walls |-> <<>>]
  ELSE IF ApiNoPosition(Head(rooms)) THEN api_generate_walls_from_rooms(Tail(rooms))
  ELSE IF ApiRoomRaises(Head(rooms)) THEN [raised |-> TRUE, walls |-> <<>>]
  ELSE LET rest == api_generate_walls_from_rooms(Tail(rooms))
       IN [raised |-> rest.raised, walls |-> ApiRoomWalls(Head(rooms)) \o rest.walls]

\* the opening of the wall at (0-based) index i, for i % 4 in {0, 1}
ApiOpening(i) ==
  IF i % 4 = 0
  THEN [type |-> "door", wall_id |-> i, position |-> 50, width |-> 90, height |-> 210,
        style |-> "standard"]
  ELSE [type |-> "window", wall_id |-> i, position |-> 50, width |-> 120, height |-> 120,
        style |-> "standard"]

RECURSIVE ApiOpeningsFrom(_, _)
ApiOpeningsFrom(i, n) ==
  IF i >= n THEN <<>>
  ELSE (IF i % 4 \in {0, 1} THEN <<ApiOpening(i)>> ELSE <<>>) \o ApiOpeningsFrom(i + 1, n)

api_generate_basic_openings(walls) == ApiOpeningsFrom(0, Len(walls))

ApiColumn(room) ==
  LET pos == room["position"] IN
  [type |-> "column",
   position |-> Point(pos.x + Get(room, "width", Num(1000)).val \div 2,
                      pos.y + Get(room, "depth", Num(1000)).val \div 2, pos.z),
   diameter |-> 30,
   height |-> Get(room, "height", Num(300)),
   cross_section |-> "circular"]

ApiLargeSpan(room) ==
  Get(room, "width", Num(1000)).val > 800 \/ Get(room, "depth", Num(1000)).val > 800

RECURSIVE api_generate_structural_elements(_)
api_generate_structural_elements(rooms) ==
  IF rooms = <<>> THEN [raised |-> FALSE, structural |-> <<>>]
  ELSE IF ApiNoPosition(Head(rooms)) THEN api_generate_structural_elements(Tail(rooms))
  ELSE IF ApiRoomRaises(Head(rooms)) THEN [raised |-> TRUE, structural |-> <<>>]
  ELSE LET rest == api_generate_structural_elements(Tail(rooms))
       IN [raised |-> rest.raised,
           structural |-> (IF ApiLargeSpan(Head(rooms))
                           THEN <<ApiColumn(Head(rooms))>> ELSE <<>>) \o rest.structural]

\* `'k' not in design_data or not design_data['k']`
MissingOrEmpty(d, k) == ~Has(d, k) \/ d[k] = <<>>

ApiEnsureProject(d) == IF ~Has(d, "project") THEN Put(d, "project", <<>>) ELSE d

ApiEnsureRooms(d) == IF ~Has(d, "rooms") THEN Put(d, "rooms", <<>>) ELSE d

ApiEnsureWalls(d) ==
  IF ~MissingOrEmpty(d, "walls") THEN [raised |-> FALSE, doc |-> d]
  ELSE IF api_generate_walls_from_rooms(d["rooms"]).raised THEN [raised |-> TRUE, doc |-> d]
  ELSE [raised |-> FALSE,
        doc |-> Put(d, "walls", api_generate_walls_from_rooms(d["rooms"]).walls)]

ApiEnsureOpenings(d) ==
  IF MissingOrEmpty(d, "openings")
  THEN Put(d, "openings", api_generate_basic_openings(d["walls"])) ELSE d

ApiEnsureStructural(d) ==
  IF ~MissingOrEmpty(d, "structural") THEN [raised |-> FALSE, doc |-> d]
  ELSE IF api_generate_structural_elements(d["rooms"]).raised
    THEN [raised |-> TRUE, doc |-> d]
  ELSE [raised |-> FALSE,
        doc |-> Put(d, "structural", api_generate_structural_elements(d["rooms"]).structural)]

\* the rest of the function, not reached when the derivation of the walls raised
ApiAfterWalls(res) ==
  IF res.raised THEN res ELSE ApiEnsureStructural(ApiEnsureOpenings(res.doc))

api_validate_and_enhance_design(d) ==
  IF DOMAIN d = {} THEN [raised |-> FALSE, doc |-> d]
  ELSE ApiAfterWalls(ApiEnsureWalls(ApiEnsureRooms(ApiEnsureProject(d))))

-----------------------------------------------------------------------------
(* Strings.  A string of the model is atomic; Spell gives its characters, on *)
(* which str.lower() and the `in` of two strings are computed.               *)

Spell(s) ==
  CASE s = "emergency" ->
         <<"e", "m", "e", "r", "g", "e", "n", "c", "y">>
    [] s = "trauma" ->
         <<"t", "r", "a", "u", "m", "a">>
    [] s = "triage" ->
         <<"t", "r", "i", "a", "g", "e">>
    [] s = "surgical" ->
         <<"s", "u", "r", "g", "i", "c", "a", "l">>
    [] s = "operating" ->
         <<"o", "p", "e", "r", "a", "t", "i", "n", "g">>
    [] s = "surgery" ->
         <<"s", "u", "r", "g", "e", "r", "y">>
    [] s = "patient" ->
         <<"p", "a", "t", "i", "e", "n", "t">>
    [] s = "room" ->
         <<"r", "o", "o", "m">>
    [] s = "bed" ->
         <<"b", "e", "d">>
    [] s = "office" ->
         <<"o", "f", "f", "i", "c", "e">>
    [] s = "admin" ->
         <<"a", "d", "m", "i", "n">>
    [] s = "reception" ->
         <<"r", "e", "c", "e", "p", "t", "i", "o", "n">>
    [] s = "lab" ->
         <<"l", "a", "b">>
    [] s = "diagnostic" ->
         <<"d", "i", "a", "g", "n", "o", "s", "t", "i", "c">>
    [] s = "imaging" ->
         <<"i", "m", "a", "g", "i", "n", "g">>
    [] s = "garden" ->
         <<"g", "a", "r", "d", "e", "n">>
    [] s = "healing" ->
         <<"h", "e", "a", "l", "i", "n", "g">>
    [] s = "wellness" ->
         <<"w", "e", "l", "l", "n", "e", "s", "s">>
    [] s = "cafeteria" ->
         <<"c", "a", "f", "e", "t", "e", "r", "i", "a">>
    [] s = "dining" ->
         <<"d", "i", "n", "i", "n", "g">>
    [] s = "kitchen" ->
         <<"k", "i", "t", "c", "h", "e", "n">>
    [] s = "parking" ->
         <<"p", "a", "r", "k", "i", "n", "g">>
    [] s = "garage" ->
         <<"g", "a", "r", "a", "g", "e">>
    [] s = "critical" ->
         <<"c", "r", "i", "t", "i", "c", "a", "l">>
    [] s = "Emergency Room" ->
         <<"E", "m", "e", "r", "g", "e", "n", "c", "y", " ", "R", "o", "o", "m">>
    [] s = "Reception" ->
         <<"R", "e", "c", "e", "p", "t", "i", "o", "n">>
    [] s = "TRAUMA BAY" ->
         <<"T", "R", "A", "U", "M", "A", " ", "B", "A", "Y">>
    [] s = "Triage Office" ->
         <<"T", "r", "i", "a", "g", "e", " ", "O", "f", "f", "i", "c", "e">>
    [] s = "Operating Room" ->
         <<"O", "p", "e", "r", "a", "t", "i", "n", "g", " ", "R", "o", "o", "m">>
    [] s = "Surgery Lab" ->
         <<"S", "u", "r", "g", "e", "r", "y", " ", "L", "a", "b">>
    [] s = "Patient Bedroom" ->
         <<"P", "a", "t", "i", "e", "n", "t", " ", "B", "e", "d", "r", "o", "o", "m">>
    [] s = "Dining Room" ->
         <<"D", "i", "n", "i", "n", "g", " ", "R", "o", "o", "m">>
    [] s = "Admin Office" ->
         <<"A", "d", "m", "i", "n", " ", "O", "f", "f", "i", "c", "e">>
    [] s = "Wellness Office" ->
         <<"W", "e", "l", "l", "n", "e", "s", "s", " ", "O", "f", "f", "i", "c", "e">>
    [] s = "Laboratory" ->
         <<"L", "a", "b", "o", "r", "a", "t", "o", "r", "y">>
    [] s = "Collaboration Space" ->
         <<"C", "o", "l", "l", "a", "b", "o", "r", "a", "t", "i", "o", "n", " ", "S", "p", "a", "c", "e">>
    [] s = "Healing Garden" ->
         <<"H", "e", "a", "l", "i", "n", "g", " ", "G", "a", "r", "d", "e", "n">>
    [] s = "Cafeteria" ->
         <<"C", "a", "f", "e", "t", "e", "r", "i", "a">>
    [] s = "Parking Garage" ->
         <<"P", "a", "r", "k", "i", "n", "g", " ", "G", "a", "r", "a", "g", "e">>
    [] s = "Storage" ->
         <<"S", "t", "o", "r", "a", "g", "e">>
    [] s = "Lobby" ->
         <<"L", "o", "b", "b", "y">>
    [] s = "Imaging" ->
         <<"I", "m", "a", "g", "i", "n", "g">>
    [] s = "Kitchen" ->
         <<"K", "i", "t", "c", "h", "e", "n">>
    [] s = "Living Room" ->
         <<"L", "i", "v", "i", "n", "g", " ", "R", "o", "o", "m">>
    [] s = "Hall" ->
         <<"H", "a", "l", "l">>
    [] s = "Closet" ->
         <<"C", "l", "o", "s", "e", "t">>
    [] s = "Atrium" ->
         <<"A", "t", "r", "i", "u", "m">>
    [] s = "Gallery" ->
         <<"G", "a", "l", "l", "e", "r", "y">>
    [] s = "Studio" ->
         <<"S", "t", "u", "d", "i", "o">>
    [] s = "Store" ->
         <<"S", "t", "o", "r", "e">>
    [] s = "Attic" ->
         <<"A", "t", "t", "i", "c">>
    [] s = "Critical Care" ->
         <<"C", "r", "i", "t", "i", "c", "a", "l", " ", "C", "a", "r", "e">>
    [] s = "sterile" ->
         <<"s", "t", "e", "r", "i", "l", "e">>
    [] s = "Clinic" ->
         <<"C", "l", "i", "n", "i", "c">>
    [] s = "Office Park" ->
         <<"O", "f", "f", "i", "c", "e", " ", "P", "a", "r", "k">>
    [] s = "Pavilion" ->
         <<"P", "a", "v", "i", "l", "i", "o", "n">>
    [] s = "hospital" ->
         <<"h", "o", "s", "p", "i", "t", "a", "l">>
    [] s = "medical" ->
         <<"m", "e", "d", "i", "c", "a", "l">>
    [] s = "clinic" ->
         <<"c", "l", "i", "n", "i", "c">>
    [] s = "corporate" ->
         <<"c", "o", "r", "p", "o", "r", "a", "t", "e">>
    [] s = "retail" ->
         <<"r", "e", "t", "a", "i", "l">>
    [] s = "mall" ->
         <<"m", "a", "l", "l">>
    [] s = "shopping" ->
         <<"s", "h", "o", "p", "p", "i", "n", "g">>
    [] s = "residential" ->
         <<"r", "e", "s", "i", "d", "e", "n", "t", "i", "a", "l">>
    [] s = "apartment" ->
         <<"a", "p", "a", "r", "t", "m", "e", "n", "t">>
    [] s = "housing" ->
         <<"h", "o", "u", "s", "i", "n", "g">>
    [] s = "" -> <<>>

UpperCase == <<"A", "B", "C", "D", "E", "F", "G", "H", "I", "J", "K", "L", "M", "N", "O", "P", "Q", "R", "S", "T", "U", "V", "W", "X", "Y", "Z">>
LowerCase == <<"a", "b", "c", "d", "e", "f", "g", "h", "i", "j", "k", "l", "m", "n", "o", "p", "q", "r", "s", "t", "u", "v", "w", "x", "y", "z">>

CharLower(c) ==
  IF \E i \in 1..26 : UpperCase[i] = c
  THEN LowerCase[CHOOSE i \in 1..26 : UpperCase[i] = c]
  ELSE c

\* str.lower()
lower(chars) == [i \in 1..Len(chars) |-> CharLower(chars[i])]

\* `keyword in text` of two strings
IsSubstring(keyword, text) ==
  \E i \in 0..(Len(text) - Len(keyword)) : SubSeq(text, i + 1, i + Len(keyword)) = keyword

\* any(keyword in text for keyword in keywords)
AnyKeywordIn(keywords, text) == \E kw \in keywords : IsSubstring(Spell(kw), text)

-----------------------------------------------------------------------------
(* src/gemini_json_reader.py: GeminiJsonReader *)

\* categorize_room with the Patient Care test moved to the front of the chain
categorize_room_patient_first(room_name) ==
  LET room_name_lower == lower(Spell(room_name)) IN
  IF AnyKeywordIn({"patient", "room", "bed"}, room_name_lower)
    THEN "Patient Care"
  ELSE IF AnyKeywordIn({"emergency", "trauma", "triage"}, room_name_lower)
    THEN "Emergency Department"
  ELSE IF AnyKeywordIn({"surgical", "operating", "surgery"}, room_name_lower)
    THEN "Surgical Department"
  ELSE IF AnyKeywordIn({"office", "admin", "reception"}, room_name_lower)
    THEN "Administration"
  ELSE IF AnyKeywordIn({"lab", "diagnostic", "imaging"}, room_name_lower)
    THEN "Diagnostic Services"
  ELSE IF AnyKeywordIn({"garden", "healing", "wellness"}, room_name_lower)
    THEN "Wellness Areas"
  ELSE IF AnyKeywordIn({"cafeteria", "dining", "kitchen"}, room_name_lower)
    THEN "Food Services"
  ELSE IF AnyKeywordIn({"parking", "garage"}, room_name_lower)
    THEN "Parking"
  ELSE "General Services"

\* GeminiJsonReader._categorize_room
categorize_room(room_name) ==
  LET room_name_lower == lower(Spell(room_name)) IN
  IF AnyKeywordIn({"emergency", "trauma", "triage"}, room_name_lower)
    THEN "Emergency Department"
  ELSE IF AnyKeywordIn({"surgical", "operating", "surgery"}, room_name_lower)
    THEN "Surgical Department"
  ELSE IF AnyKeywordIn({"patient", "room", "bed"}, room_name_lower)
    THEN "Patient Care"
  ELSE IF AnyKeywordIn({"office", "admin", "reception"}, room_name_lower)
    THEN "Administration"
  ELSE IF AnyKeywordIn({"lab", "diagnostic", "imaging"}, room_name_lower)
    THEN "Diagnostic Services"
  ELSE IF AnyKeywordIn({"garden", "healing", "wellness"}, room_name_lower)
    THEN "Wellness Areas"
  ELSE IF AnyKeywordIn({"cafeteria", "dining", "kitchen"}, room_name_lower)
    THEN "Food Services"
  ELSE IF AnyKeywordIn({"parking", "garage"}, room_name_lower)
    THEN "Parking"
  ELSE "General Services"

\* _calculate_adjacency_weight that looks for 'critical' in the feature as written
calculate_adjacency_weight_case_sensitive(room) ==
  LET name_lower == lower(Spell(room["name"]))
      base_weight ==
        IF AnyKeywordIn({"emergency", "trauma", "surgical"}, name_lower) THEN 300
        ELSE IF AnyKeywordIn({"patient", "room"}, name_lower) THEN 200
        ELSE IF AnyKeywordIn({"office", "admin"}, name_lower) THEN 150
        ELSE 100
      features == Get(room, "features", <<>>)
  IN IF \E i \in 1..Len(features) : IsSubstring(Spell("critical"), Spell(features[i]))
     THEN (base_weight * 15) \div 10
     ELSE base_weight

\* GeminiJsonReader._calculate_adjacency_weight, in hundredths
calculate_adjacency_weight(room) ==
  LET name_lower == lower(Spell(room["name"]))
      base_weight ==
        IF AnyKeywordIn({"emergency", "trauma", "surgical"}, name_lower) THEN 300
        ELSE IF AnyKeywordIn({"patient", "room"}, name_lower) THEN 200
        ELSE IF AnyKeywordIn({"office", "admin"}, name_lower) THEN 150
        ELSE 100
      features == Get(room, "features", <<>>)
  IN IF \E i \in 1..Len(features) : IsSubstring(Spell("critical"), lower(Spell(features[i])))
     THEN (base_weight * 15) \div 10
     ELSE base_weight

Program(room, id) ==
  [id |-> id,
   name |-> room["name"],
   area |-> room["width"].val * room["depth"].val,
   quantity |-> 1,
   width |-> room["width"],
   depth |-> room["depth"],
   height |-> Get(room, "height", Num(300)),
   position |-> Get(room, "position", Origin),
   shape |-> Get(room, "shape", "rectangle"),
   features |-> Get(room, "features", <<>>),
   adjacency_weight |-> calculate_adjacency_weight(room)]

\* the departments with a department of the room's category, appended when new
WithDepartment(depts, room) ==
  LET dept_name == categorize_room(room["name"]) IN
  IF \E j \in 1..Len(depts) : depts[j].name = dept_name THEN depts
  ELSE Append(depts, [name |-> dept_name, programs |-> <<>>, total_area |-> 0,
                      floor |-> Get(room, "floor", Num(1))])

\* AddRoom that assigns the room's area to total_area (= in the place of +=)
AddRoomOverwritesArea(depts, room) ==
  LET ds == WithDepartment(depts, room)
      j == CHOOSE j \in 1..Len(ds) : ds[j].name = categorize_room(room["name"])
      program == Program(room, Len(ds[j].programs) + 1)
  IN [ds EXCEPT ![j].programs = Append(@, program),
                ![j].total_area = program.area]

\* one iteration of the loop over the rooms in get_department_data
AddRoom(depts, room) ==
  LET ds == WithDepartment(depts, room)
      j == CHOOSE j \in 1..Len(ds) : ds[j].name = categorize_room(room["name"])
      program == Program(room, Len(ds[j].programs) + 1)
  IN [ds EXCEPT ![j].programs = Append(@, program),
                ![j].total_area = @ + program.area]

RECURSIVE GroupRooms(_, _)
GroupRooms(depts, rooms) ==
  IF rooms = <<>> THEN depts
  ELSE GroupRooms(AddRoom(depts, Head(rooms)), Tail(rooms))

\* GeminiJsonReader.get_department_data
get_department_data(d) ==
  IF DOMAIN d = {} \/ ~Has(d, "rooms") THEN <<>>
  ELSE GroupRooms(<<>>, d["rooms"])

\* the programs of all departments, in the order of the two nested loops
RECURSIVE AllPrograms(_)
AllPrograms(depts) ==
  IF depts = <<>> THEN <<>>
  ELSE Head(depts).programs \o AllPrograms(Tail(depts))

\* the lists depths and widths the loops append to
ProgramDepths(programs) == [i \in 1..Len(programs) |-> programs[i].depth.val]
ProgramWidths(programs) == [i \in 1..Len(programs) |-> programs[i].width.val]

\* set(values)
SetOf(values) == { values[i] : i \in 1..Len(values) }

\* sorted(list(S)) of a set of numbers
RECURSIVE sorted(_)
sorted(S) ==
  IF S = {} THEN <<>>
  ELSE LET least == CHOOSE x \in S : \A y \in S : x <= y
       IN <<least>> \o sorted(S \ {least})

\* the distinct values of a list in the order of their first occurrence
RECURSIVE FirstSeen(_)
FirstSeen(values) ==
  IF values = <<>> THEN <<>>
  ELSE LET before == FirstSeen(SubSeq(values, 1, Len(values) - 1))
           last == values[Len(values)]
       IN IF last \in SetOf(before) THEN before ELSE Append(before, last)

DefaultKpuDepths == <<1500, 2000, 2500>>
DefaultKpuWidths == <<1000, 1500, 2000>>

\* the pair get_kpu_dimensions returns for the lists depths and widths
KpuDimensionsOf(depths, widths) ==
  IF depths = <<>> \/ widths = <<>>
  THEN <<DefaultKpuDepths, DefaultKpuWidths>>
  ELSE <<sorted(SetOf(depths)), sorted(SetOf(widths))>>

\* the pair without the call of sorted
KpuDimensionsUnsorted(depths, widths) ==
  IF depths = <<>> \/ widths = <<>>
  THEN <<DefaultKpuDepths, DefaultKpuWidths>>
  ELSE <<FirstSeen(depths), FirstSeen(widths)>>

\* get_kpu_dimensions without the call of sorted
reader_get_kpu_dimensions_unsorted(d) ==
  CHOOSE pools \in { KpuDimensionsUnsorted(ProgramDepths(programs), ProgramWidths(programs)) :
                       programs \in { AllPrograms(depts) : depts \in {get_department_data(d)} } } :
    TRUE

\* GeminiJsonReader.get_kpu_dimensions: the pair (depths, widths); the
\* departments and their programs are computed once
reader_get_kpu_dimensions(d) ==
  CHOOSE pools \in { KpuDimensionsOf(ProgramDepths(programs), ProgramWidths(programs)) :
                       programs \in { AllPrograms(depts) : depts \in {get_department_data(d)} } } :
    TRUE

-----------------------------------------------------------------------------
(* Input documents *)

Sections == {"project", "rooms", "walls", "openings", "structural", "exterior"}

Room(name, w, d, h, pos, shape) ==
  [k \in {"name"} \cup (IF w = <<>> THEN {} ELSE {"width"})
                  \cup (IF d = <<>> THEN {} ELSE {"depth"})
                  \cup (IF h = <<>> THEN {} ELSE {"height"})
                  \cup (IF pos = <<>> THEN {} ELSE {"position"})
                  \cup (IF shape = <<>> THEN {} ELSE {"shape"}) |->
     CASE k = "name" -> name
       [] k = "width" -> w[1]
       [] k = "depth" -> d[1]
       [] k = "height" -> h[1]
       [] k = "position" -> pos[1]
       [] k = "shape" -> shape[1]]

\* <<>> is an absent key, <<v>> a key with the value v
SampleRooms ==
  { Room("Hall", <<>>, <<>>, <<>>, <<>>, <<>>),
    Room("Closet", <<Num(-300)>>, <<Num(0)>>, <<Num(100)>>, <<Point(200, 300, 0)>>, <<"L-shaped">>),
    Room("Atrium", <<Num(2000)>>, <<Num(1600)>>, <<Num(900)>>, <<>>, <<"circular">>),
    Room("Lobby", <<Num(1000)>>, <<Num(600)>>, <<Num(350)>>, <<Origin>>, <<"rectangle">>),
    Room("Gallery", <<Num(500)>>, <<Num(850)>>, <<Num(220)>>, <<Point(100, 200, 300)>>, <<>>),
    Room("Studio", <<Num(800)>>, <<Num(800)>>, <<Num(500)>>, <<Point(400, 0, 0)>>, <<"rectangle">>),
    Room("Store", <<Str>>, <<Num(400)>>, <<Num(300)>>, <<Origin>>, <<"rectangle">>),
    Room("Attic", <<Num(400)>>, <<Num(300)>>, <<Null>>, <<>>, <<>>) }

RoomLists == UNION { [1..n -> SampleRooms] : n \in 0..MaxRooms }

SuppliedProject == [name |-> "Clinic", style |-> "traditional", floors |-> 2]
SuppliedWalls == << Wall(Point(0, 0, 0), Point(1200, 0, 0), Num(400)) >>
SuppliedOpenings ==
  << [type |-> "door", wall_id |-> 0, position |-> 200, width |-> 120, height |-> 210] >>
SuppliedStructural ==
  << [type |-> "column", position |-> Point(600, 400, 0), diameter |-> 40, height |-> Num(1200)] >>
SuppliedExterior ==
  [roof |-> [type |-> "flat", pitch |-> 0],
   facade |-> [material |-> "glass", color |-> "blue"]]

Optional(S) == {<<>>} \cup { <<v>> : v \in S }

Document(p, r, w, o, s, e) ==
  [k \in (IF p = <<>> THEN {} ELSE {"project"})
         \cup (IF r = <<>> THEN {} ELSE {"rooms"})
         \cup (IF w = <<>> THEN {} ELSE {"walls"})
         \cup (IF o = <<>> THEN {} ELSE {"openings"})
         \cup (IF s = <<>> THEN {} ELSE {"structural"})
         \cup (IF e = <<>> THEN {} ELSE {"exterior"}) |->
     CASE k = "project" -> p[1]
       [] k = "rooms" -> r[1]
       [] k = "walls" -> w[1]
       [] k = "openings" -> o[1]
       [] k = "structural" -> s[1]
       [] k = "exterior" -> e[1]]

EmptyDocument == Document(<<>>, <<>>, <<>>, <<>>, <<>>, <<>>)

-----------------------------------------------------------------------------
(* The normaliser as a state machine *)

ReaderIdle ==
  /\ data = EmptyDocument
  /\ departments = <<>>
  /\ reader_pc = "idle"
  /\ kpu_dimensions = <<>>

\* the defaults of design_seed, circulation_factor and acceptable_width
DefaultArgs == [design_seed |-> 50, circulation_factor |-> 180, acceptable_width |-> 1800]

\* process_gemini_json_for_spaceplanning has not been called
ProcessIdle ==
  /\ json_file = [kind |-> "missing", content |-> EmptyDocument]
  /\ args = DefaultArgs

\* no integrator has been constructed
LayoutIdle ==
  /\ ProcessIdle
  /\ design_params = EmptyDocument
  /\ DYNAMO_CORE_AVAILABLE = FALSE
  /\ polygon_has_width = FALSE
  /\ design_seed = 50
  /\ layout_pc = "idle"
  /\ placed_departments = <<>>
  /\ circulation = <<>>
  /\ geometry_3d = <<>>
  /\ results = EmptyDocument
  /\ runs = <<>>

InitDocument ==
  \E p \in Optional({SuppliedProject}),
     r \in Optional(RoomLists),
     w \in Optional({<<>>, SuppliedWalls}),
     o \in Optional({<<>>, SuppliedOpenings}),
     s \in Optional({<<>>, SuppliedStructural}),
     e \in Optional({SuppliedExterior}) :
       /\ design_data = Document(p, r, w, o, s, e)
       /\ input = design_data

InitApp ==
  /\ InitDocument
  /\ status = "input"
  /\ calls = 0
  /\ history = <<>>
  /\ ReaderIdle
  /\ LayoutIdle

\* a call of validate_and_enhance_design that returns
ValidateReturns ==
  /\ calls < MaxCalls
  /\ LET res == validate_and_enhance_design(design_data) IN
       /\ ~res.raised
       /\ design_data' = res.doc
       /\ history' = Append(history, res.doc)
  /\ status' = "returned"
  /\ calls' = calls + 1
  /\ UNCHANGED <<input, reader_vars, layout_vars>>

\* a call of validate_and_enhance_design that ends in a TypeError
ValidateRaises ==
  /\ calls < MaxCalls
  /\ LET res == validate_and_enhance_design(design_data) IN
       /\ res.raised
       /\ design_data' = res.doc
  /\ status' = "raised"
  /\ calls' = calls + 1
  /\ UNCHANGED <<input, history, reader_vars, layout_vars>>

NextApp == ValidateReturns \/ ValidateRaises

SpecApp == InitApp /\ [][NextApp]_vars

InitApi == InitApp

\* a call of validate_and_enhance_design of src/api/index.py that returns
ApiValidateReturns ==
  /\ calls < MaxCalls
  /\ LET res == api_validate_and_enhance_design(design_data) IN
       /\ ~res.raised
       /\ design_data' = res.doc
       /\ history' = Append(history, res.doc)
  /\ status' = "returned"
  /\ calls' = calls + 1
  /\ UNCHANGED <<input, reader_vars, layout_vars>>

\* a call of validate_and_enhance_design of src/api/index.py that ends in a TypeError
ApiValidateRaises ==
  /\ calls < MaxCalls
  /\ LET res == api_validate_and_enhance_design(design_data) IN
       /\ res.raised
       /\ design_data' = res.doc
  /\ status' = "raised"
  /\ calls' = calls + 1
  /\ UNCHANGED <<input, history, reader_vars, layout_vars>>

NextApi == ApiValidateReturns \/ ApiValidateRaises

SpecApi == InitApi /\ [][NextApi]_vars

-----------------------------------------------------------------------------
(* Properties of the normaliser *)

Returned == status = "returned"

RoomsOf(d) == d["rooms"]

InRange(v, lo, hi) == IsNumber(v) /\ lo <= v.val /\ v.val <= hi

RoomInRange(room) ==
  /\ {"width", "depth", "height"} \subseteq DOMAIN room
  /\ InRange(room["width"], 200, 1500)
  /\ InRange(room["depth"], 200, 1500)
  /\ InRange(room["height"], 220, 500)

\* C1: once validate_and_enhance_design of src/app.py has returned, every room
\* of the document has 2 <= width <= 15, 2 <= depth <= 15 and 2.2 <= height <= 5,
\* whatever the input values were (negative, zero, absent, too large).
C1_ClampingInvariant ==
  Returned => \A i \in 1..Len(RoomsOf(design_data)) : RoomInRange(RoomsOf(design_data)[i])

\* a returned document whose input had a negative width, a zero depth and a
\* room without any dimension
C1_Witness ==
  /\ Returned
  /\ Has(input, "rooms")
  /\ \E i \in 1..Len(RoomsOf(input)) :
       LET room == RoomsOf(input)[i] IN
         /\ Has(room, "width") /\ IsNumber(room["width"]) /\ room["width"].val < 0
         /\ Has(room, "depth") /\ room["depth"] = Num(0)
         /\ RoomsOf(design_data)[i]["width"] = Num(200)
  /\ \E i \in 1..Len(RoomsOf(input)) :
       /\ DOMAIN RoomsOf(input)[i] = {"name"}
       /\ RoomsOf(design_data)[i]["height"] = Num(300)

\* the four corners of a room's footprint, from its origin corner
Corners(room) ==
  LET pos == room["position"]
      w == room["width"].val
      d == room["depth"].val
  IN << Point(pos.x, pos.y, pos.z), Point(pos.x + w, pos.y, pos.z),
        Point(pos.x + w, pos.y + d, pos.z), Point(pos.x, pos.y + d, pos.z) >>

\* C2: when the input has no walls section, the returned document has exactly
\* 4 walls per room, and the 4 walls of a room are a closed loop over its
\* corners (x,y), (x+w,y), (x+w,y+d), (x,y+d) at the room's z: wall k ends where
\* wall k+1 starts and the 4th wall ends at the origin corner.
C2_WallDerivation ==
  (Returned /\ ~Has(input, "walls")) =>
    LET rooms == RoomsOf(design_data)
        walls == design_data["walls"]
    IN /\ Len(walls) = 4 * Len(rooms)
       /\ \A i \in 1..Len(rooms) : \A k \in 1..4 :
            LET wall == walls[4 * (i - 1) + k] IN
              /\ wall.start = Corners(rooms[i])[k]
              /\ wall.end = Corners(rooms[i])[(k % 4) + 1]
              /\ wall.start.z = rooms[i]["position"].z
              /\ wall.end.z = rooms[i]["position"].z

\* two rooms, one of them away from the origin, with their 8 derived walls
C2_Witness ==
  /\ Returned
  /\ ~Has(input, "walls")
  /\ Len(RoomsOf(design_data)) = 2
  /\ Len(design_data["walls"]) = 8
  /\ \E i \in 1..2 : RoomsOf(design_data)[i]["position"] = Point(100, 200, 300)

LargeRooms(rooms) ==
  { i \in 1..Len(rooms) : rooms[i]["width"].val > 800 \/ rooms[i]["depth"].val > 800 }

\* the columns are exactly those of the rooms with a span over 8 m, in room order
ColumnsMatch(rooms, columns) ==
  /\ Len(columns) = Cardinality(LargeRooms(rooms))
  /\ \A i \in LargeRooms(rooms) :
       LET column == columns[Cardinality({ j \in LargeRooms(rooms) : j <= i })]
           pos == rooms[i]["position"]
       IN /\ column.type = "column"
          /\ 2 * (column.position.x - pos.x) = rooms[i]["width"].val
          /\ 2 * (column.position.y - pos.y) = rooms[i]["depth"].val
          /\ column.diameter = 30
          /\ column.height = rooms[i]["height"]

\* C3: when the input has no structural section, the returned document has
\* exactly one column for each room whose clamped width or depth is over 8 m and
\* none for the others; the column is centred at (x + width/2, y + depth/2), has
\* diameter 0.3 and the room's height.
C3_ColumnDerivation ==
  (Returned /\ ~Has(input, "structural")) =>
    ColumnsMatch(RoomsOf(design_data), design_data["structural"])

\* a room of exactly 8 m x 8 m without a column next to a larger one with its column
C3_Witness ==
  /\ Returned
  /\ ~Has(input, "structural")
  /\ Len(design_data["structural"]) = 1
  /\ \E i \in 1..Len(RoomsOf(design_data)) :
       /\ RoomsOf(design_data)[i]["width"] = Num(800)
       /\ RoomsOf(design_data)[i]["depth"] = Num(800)
  /\ \E i \in 1..Len(RoomsOf(design_data)) : RoomsOf(design_data)[i]["depth"] = Num(850)

\* C4: for every input that misses any subset of the six sections, the returned
\* document has all six; for the empty mapping it has 1 default room, 4 walls,
\* its derived openings, no structural element and the default exterior.
C4_AllSectionsPresent ==
  Returned =>
    /\ Sections \subseteq DOMAIN design_data
    /\ input = EmptyDocument =>
         /\ Len(RoomsOf(design_data)) = 1
         /\ Len(design_data["walls"]) = 4
         /\ Len(design_data["structural"]) = 0
         /\ design_data["exterior"] = DefaultExterior

\* C5: a walls, openings or structural section that is present but empty is
\* derived as if it were absent: 4 walls per room, the alternating openings of
\* the first walls, one column per room with a span over 8 m.
C5_EmptySectionsDerived ==
  Returned =>
    /\ (Has(input, "walls") /\ input["walls"] = <<>>) =>
         Len(design_data["walls"]) = 4 * Len(RoomsOf(design_data))
    /\ (Has(input, "openings") /\ input["openings"] = <<>>) =>
         Len(design_data["openings"]) = PyMin(Len(design_data["walls"]), 4)
    /\ (Has(input, "structural") /\ input["structural"] = <<>>) =>
         ColumnsMatch(RoomsOf(design_data), design_data["structural"])

SameRoomValues(r1, r2) ==
  \A k \in {"width", "depth", "height", "position", "shape"} : r1[k] = r2[k]

SameNormalForm(d1, d2) ==
  /\ Len(d1["walls"]) = Len(d2["walls"])
  /\ Len(d1["openings"]) = Len(d2["openings"])
  /\ Len(d1["structural"]) = Len(d2["structural"])
  /\ Len(RoomsOf(d1)) = Len(RoomsOf(d2))
  /\ \A i \in 1..Len(RoomsOf(d1)) : SameRoomValues(RoomsOf(d1)[i], RoomsOf(d2)[i])

\* C6: normalising a document that validate_and_enhance_design returned gives
\* the same wall, opening and structural counts and the same room width, depth,
\* height, position and shape.
C6_Idempotent ==
  \A n \in 1..(Len(history) - 1) : SameNormalForm(history[n], history[n + 1])

\* a second call on the result of a call that clamped a room and derived sections
C6_Witness ==
  /\ Len(history) >= 2
  /\ ~Has(input, "walls")
  /\ Has(input, "rooms")
  /\ \E i \in 1..Len(RoomsOf(input)) :
       /\ Has(RoomsOf(input)[i], "width")
       /\ RoomsOf(input)[i]["width"] # RoomsOf(history[2])[i]["width"]

InputHasWrongType ==
  /\ Has(input, "rooms")
  /\ \E i \in 1..Len(RoomsOf(input)) : \E k \in {"width", "depth", "height"} :
       Has(RoomsOf(input)[i], k) /\ ~IsNumber(RoomsOf(input)[i][k])

\* C7: a room dimension that is present but not a number is replaced by a value
\* inside the clamp range and the call returns a document; no error propagates.
C7_WrongTypeCoerced ==
  (calls >= 1 /\ InputHasWrongType) =>
    /\ Returned
    /\ \A i \in 1..Len(RoomsOf(design_data)) : RoomInRange(RoomsOf(design_data)[i])

\* C8: the derived openings are one for each of the first min(len(walls), 4)
\* walls: wall i gets a door of 0.9 x 2.1 when i is even and a window of
\* 1.2 x 1.0 when i is odd, and every wall_id is an index of the walls list.
C8_OpeningsDerived ==
  (Returned /\ ~Has(input, "openings")) =>
    LET walls == design_data["walls"]
        openings == design_data["openings"]
    IN /\ Len(openings) = (IF Len(walls) < 4 THEN Len(walls) ELSE 4)
       /\ \A j \in 1..Len(openings) :
            /\ openings[j].wall_id = j - 1
            /\ openings[j].wall_id >= 0 /\ openings[j].wall_id < Len(walls)
            /\ (j - 1) % 2 = 0 =>
                 /\ openings[j].type = "door"
                 /\ openings[j].width = 90 /\ openings[j].height = 210
            /\ (j - 1) % 2 = 1 =>
                 /\ openings[j].type = "window"
                 /\ openings[j].width = 120 /\ openings[j].height = 100

\* 8 derived walls of which only the first 4 get an opening
C8_Witness ==
  /\ Returned
  /\ ~Has(input, "openings")
  /\ Len(design_data["walls"]) = 8
  /\ Len(design_data["openings"]) = 4
  /\ design_data["openings"][4].type = "window"

-----------------------------------------------------------------------------
(* The reader as a state machine *)

\* a room of a design file: name, width and depth, and optionally floor and features
ReaderRoom(name, w, d, floor, features) ==
  [k \in {"name", "width", "depth"}
         \cup (IF floor = <<>> THEN {} ELSE {"floor"})
         \cup (IF features = <<>> THEN {} ELSE {"features"}) |->
     CASE k = "name" -> name
       [] k = "width" -> Num(w)
       [] k = "depth" -> Num(d)
       [] k = "floor" -> floor[1]
       [] k = "features" -> features[1]]

ReaderSampleRooms ==
  { ReaderRoom("Emergency Room", 600, 500, <<Num(1)>>, <<<<"Critical Care">>>>),
    ReaderRoom("Emergency Room", 1000, 600, <<>>, <<>>),
    ReaderRoom("Reception", 400, 300, <<>>, <<>>),
    ReaderRoom("TRAUMA BAY", 500, 400, <<Num(2)>>, <<>>),
    ReaderRoom("Triage Office", 300, 300, <<>>, <<<<>>>>),
    ReaderRoom("Operating Room", 700, 600, <<Num(2)>>, <<<<"sterile">>>>),
    ReaderRoom("Surgery Lab", 500, 500, <<>>, <<>>),
    ReaderRoom("Patient Bedroom", 400, 350, <<Num(3)>>, <<<<"Critical Care">>>>),
    ReaderRoom("Dining Room", 800, 600, <<>>, <<>>),
    ReaderRoom("Admin Office", 400, 300, <<>>, <<<<"Critical Care">>>>),
    ReaderRoom("Wellness Office", 350, 300, <<>>, <<>>),
    ReaderRoom("Laboratory", 600, 400, <<>>, <<>>),
    ReaderRoom("Collaboration Space", 900, 700, <<>>, <<>>),
    ReaderRoom("Healing Garden", 1200, 1000, <<Num(0)>>, <<>>),
    ReaderRoom("Cafeteria", 1500, 1000, <<>>, <<>>),
    ReaderRoom("Kitchen", 500, 400, <<>>, <<>>),
    ReaderRoom("Parking Garage", 1500, 1500, <<Num(0)>>, <<>>),
    ReaderRoom("Storage", 300, 200, <<>>, <<<<"Critical Care">>>>),
    ReaderRoom("Lobby", 800, 800, <<>>, <<>>),
    ReaderRoom("Imaging", 450, 450, <<>>, <<>>) }

ReaderRoomLists == UNION { [1..n -> ReaderSampleRooms] : n \in 0..MaxRooms }

NormalizerIdle ==
  /\ input = EmptyDocument
  /\ design_data = EmptyDocument
  /\ status = "input"
  /\ calls = 0
  /\ history = <<>>

\* the design file is loaded: empty, without rooms, or with a list of rooms
InitReader ==
  /\ NormalizerIdle
  /\ LayoutIdle
  /\ \E p \in Optional({SuppliedProject}), r \in Optional(ReaderRoomLists) :
       data = Document(p, r, <<>>, <<>>, <<>>, <<>>)
  /\ departments = <<>>
  /\ reader_pc = "loaded"
  /\ kpu_dimensions = <<>>

GetDepartmentData ==
  /\ reader_pc = "loaded"
  /\ departments' = get_department_data(data)
  /\ reader_pc' = "done"
  /\ UNCHANGED <<data, kpu_dimensions, normalizer_vars, layout_vars>>

\* a call of get_kpu_dimensions on the loaded reader
GetKpuDimensions ==
  /\ reader_pc \in {"loaded", "done"}
  /\ kpu_dimensions = <<>>
  /\ kpu_dimensions' = reader_get_kpu_dimensions(data)
  /\ UNCHANGED <<data, departments, reader_pc, normalizer_vars, layout_vars>>

NextReader == GetDepartmentData \/ GetKpuDimensions

SpecReader == InitReader /\ [][NextReader]_vars

-----------------------------------------------------------------------------
(* Properties of the classifier *)

\* the rules of the classification, in their order of precedence
Rules ==
  << [keywords |-> {"emergency", "trauma", "triage"}, department |-> "Emergency Department"],
     [keywords |-> {"surgical", "operating", "surgery"}, department |-> "Surgical Department"],
     [keywords |-> {"patient", "room", "bed"}, department |-> "Patient Care"],
     [keywords |-> {"office", "admin", "reception"}, department |-> "Administration"],
     [keywords |-> {"lab", "diagnostic", "imaging"}, department |-> "Diagnostic Services"],
     [keywords |-> {"garden", "healing", "wellness"}, department |-> "Wellness Areas"],
     [keywords |-> {"cafeteria", "dining", "kitchen"}, department |-> "Food Services"],
     [keywords |-> {"parking", "garage"}, department |-> "Parking"] >>

RuleMatches(n, name) ==
  \E kw \in Rules[n].keywords : IsSubstring(Spell(kw), lower(Spell(name)))

FirstMatch(name) ==
  IF \E n \in 1..Len(Rules) : RuleMatches(n, name)
  THEN Rules[CHOOSE n \in 1..Len(Rules) :
               RuleMatches(n, name) /\ \A m \in 1..(n - 1) : ~RuleMatches(m, name)].department
  ELSE "General Services"

NamesOf(list) == [i \in 1..Len(list) |-> list[i]["name"]]

DepartmentOfName(name) ==
  { departments[j].name : j \in { j \in 1..Len(departments) :
      \E k \in 1..Len(departments[j].programs) : departments[j].programs[k].name = name } }

\* C9: every room is put in the department of the first rule, in the order
\* Emergency, Surgical, Patient Care, Administration, Diagnostic, Wellness, Food,
\* Parking, that has a keyword in the lower-cased name, and in General Services
\* when no rule has one; "Emergency Room" is in Emergency Department and
\* "Reception" in Administration, 2 departments of one program each.
C9_FirstMatchWins ==
  reader_pc = "done" =>
    /\ \A j \in 1..Len(departments) : \A k \in 1..Len(departments[j].programs) :
         departments[j].name = FirstMatch(departments[j].programs[k].name)
    /\ DepartmentOfName("Emergency Room") \subseteq {"Emergency Department"}
    /\ DepartmentOfName("TRAUMA BAY") \subseteq {"Emergency Department"}
    /\ DepartmentOfName("Operating Room") \subseteq {"Surgical Department"}
    /\ DepartmentOfName("Dining Room") \subseteq {"Patient Care"}
    /\ DepartmentOfName("Reception") \subseteq {"Administration"}
    /\ DepartmentOfName("Storage") \subseteq {"General Services"}
    /\ (Has(data, "rooms") /\ NamesOf(data["rooms"]) = <<"Emergency Room", "Reception">>) =>
         /\ NamesOf(departments) = <<"Emergency Department", "Administration">>
         /\ Len(departments[1].programs) = 1
         /\ Len(departments[2].programs) = 1

\* the scenario of the two rooms "Emergency Room" and "Reception"
C9_Witness ==
  /\ reader_pc = "done"
  /\ Has(data, "rooms")
  /\ NamesOf(data["rooms"]) = <<"Emergency Room", "Reception">>
  /\ Len(departments) = 2

Signature(r) == <<r["name"], r["width"], r["depth"]>>

RECURSIVE SumOver(_, _)
SumOver(f, n) == IF n = 0 THEN 0 ELSE f[n] + SumOver(f, n - 1)

RoomCount(rooms, sig) == Cardinality({ i \in 1..Len(rooms) : Signature(rooms[i]) = sig })

ProgramCount(depts, sig) ==
  SumOver([j \in 1..Len(depts) |->
             Cardinality({ k \in 1..Len(depts[j].programs) :
                             Signature(depts[j].programs[k]) = sig })], Len(depts))

\* C10: get_department_data partitions the rooms: each room is a program of
\* exactly one department (as many programs as rooms, none lost or duplicated),
\* the department names are pairwise distinct, there are at most as many
\* departments as rooms, and the total_area of the departments add up to the sum
\* of width * depth over the rooms.
C10_Partition ==
  (reader_pc = "done" /\ Has(data, "rooms")) =>
    LET rooms == data["rooms"] IN
      /\ \A i \in 1..Len(rooms) :
           RoomCount(rooms, Signature(rooms[i])) = ProgramCount(departments, Signature(rooms[i]))
      /\ SumOver([j \in 1..Len(departments) |-> Len(departments[j].programs)],
                 Len(departments)) = Len(rooms)
      /\ \A j \in 1..Len(departments) : Len(departments[j].programs) >= 1
      /\ \A i, j \in 1..Len(departments) : departments[i].name = departments[j].name => i = j
      /\ Len(departments) <= Len(rooms)
      /\ SumOver([j \in 1..Len(departments) |-> departments[j].total_area], Len(departments))
           = SumOver([i \in 1..Len(rooms) |-> rooms[i]["width"].val * rooms[i]["depth"].val],
                     Len(rooms))

\* two rooms of the same department, grouped into one department of two programs
C10_Witness ==
  /\ reader_pc = "done"
  /\ Has(data, "rooms")
  /\ Len(data["rooms"]) = 2
  /\ Len(departments) = 1
  /\ Len(departments[1].programs) = 2
  /\ departments[1].programs[1].name # departments[1].programs[2].name
-----------------------------------------------------------------------------
(* Properties of the adjacency weight *)

\* the keyword rules of the weight, in the order they are tried; high is the
\* keyword list of the first rule
WeightRules(high) ==
  << [keywords |-> high, weight |-> 300],
     [keywords |-> {"patient", "room"}, weight |-> 200],
     [keywords |-> {"office", "admin"}, weight |-> 150] >>

WeightRuleMatches(high, n, name) ==
  \E k \in WeightRules(high)[n].keywords : IsSubstring(Spell(k), lower(Spell(name)))

\* the weight of the first rule that matches the name, 1.0 when none does
BaseWeight(high, name) ==
  IF \E n \in 1..3 : WeightRuleMatches(high, n, name)
    THEN LET n == CHOOSE n \in 1..3 :
                    /\ WeightRuleMatches(high, n, name)
                    /\ \A m \in 1..(n - 1) : ~WeightRuleMatches(high, m, name)
         IN WeightRules(high)[n].weight
    ELSE 100

HasCriticalFeature(features) ==
  \E i \in 1..Len(features) : IsSubstring(Spell("critical"), lower(Spell(features[i])))

\* every program carries BaseWeight, times 1.5 exactly when a feature is critical
WeightsFollow(high) ==
  \A j \in 1..Len(departments) : \A i \in 1..Len(departments[j].programs) :
    LET p == departments[j].programs[i] IN
    p.adjacency_weight * 10 =
      BaseWeight(high, p.name) * (IF HasCriticalFeature(p.features) THEN 15 ELSE 10)

\* C12 (as amended): the adjacency weight of a room is 3.0 if its lower-cased
\* name contains emergency, trauma or surgical, else 2.0 if it contains patient
\* or room, else 1.5 if it contains office or admin, else 1.0, and it is
\* multiplied by 1.5 exactly when some feature contains "critical" in any case.
C12_AdjacencyWeight ==
  reader_pc = "done" => WeightsFollow({"emergency", "trauma", "surgical"})

\* C12 (as stated): the first rule has the keywords emergency and surgical
\* only, and no other keyword changes the weight.
C12_OnlyEmergencyOrSurgical ==
  reader_pc = "done" => WeightsFollow({"emergency", "surgical"})

\* a trauma room that is neither emergency nor surgical weighs 3.0, next to a
\* room that a feature written "Critical ..." makes 1.5 times heavier
C12_Witness ==
  /\ reader_pc = "done"
  /\ \E j \in 1..Len(departments) : \E i \in 1..Len(departments[j].programs) :
       LET p == departments[j].programs[i] IN
       /\ IsSubstring(Spell("trauma"), lower(Spell(p.name)))
       /\ BaseWeight({"emergency", "surgical"}, p.name) = 100
       /\ p.adjacency_weight = 300
  /\ \E j \in 1..Len(departments) : \E i \in 1..Len(departments[j].programs) :
       LET p == departments[j].programs[i] IN
       /\ HasCriticalFeature(p.features)
       /\ p.adjacency_weight = (BaseWeight({"emergency", "trauma", "surgical"}, p.name) * 15) \div 10
-----------------------------------------------------------------------------
(* src/dynamo_spaceplanning_integration.py: DynamoSpaceplanningIntegrator *)

\* MockPoint2d, or the host's Point in the plane z = 0
Point2d(x, y) == [X |-> x, Y |-> y]

\* MockPolygon2d, or the host's Polygon.ByPoints: it keeps its points
Polygon2d(points) == [Points |-> points]

\* the four points the placement code builds for a footprint at (x, y)
RectanglePoints(x, y, width, depth) ==
  << Point2d(x, y), Point2d(x + width, y),
     Point2d(x + width, y + depth), Point2d(x, y + depth) >>

\* one entry of program_data_list
ProgramData(dept, program, i) ==
  [ProgId |-> i,
   ProgramName |-> Get(program, "name", "Unknown"),
   DeptName |-> Get(dept, "name", "Unknown"),
   Quantity |-> Get(program, "quantity", 1),
   UnitArea |-> Get(program, "area", 1000000),
   AdjacencyWeight |-> Get(program, "adjacency_weight", 100),
   Width |-> Get(program, "width", Num(1000)),
   Depth |-> Get(program, "depth", Num(1000)),
   Height |-> Get(program, "height", Num(300)),
   Position |-> Get(program, "position", Origin),
   Shape |-> Get(program, "shape", "rectangle"),
   Features |-> Get(program, "features", <<>>)]

ProgramDataList(dept) ==
  LET programs == Get(dept, "programs", <<>>)
  IN [i \in 1..Len(programs) |-> ProgramData(dept, programs[i], i)]

\* sum(dept.get('total_area', 100) for dept in departments), in cm2
RECURSIVE TotalArea(_)
TotalArea(depts) ==
  IF depts = <<>> THEN 0
  ELSE Get(Head(depts), "total_area", 1000000) + TotalArea(Tail(depts))

\* the quotient a / b of two areas, kept exact as a fraction
Quotient(a, b) == [num |-> a, den |-> b]

\* the float 0.0
Zero == Quotient(0, 1)

\* one entry of dept_data_stack, with its proportion of total_area
DeptData(params, dept, total_area) ==
  LET needed == Get(dept, "total_area", 1000000) IN
  [DeptName |-> Get(dept, "name", "Unknown"),
   ProgramsInDept |-> ProgramDataList(dept),
   DeptAreaNeeded |-> needed,
   DeptAreaProportionNeeded |-> IF total_area > 0 THEN Quotient(needed, total_area) ELSE Zero,
   CirculationFactor |-> Get(params, "circulation_factor", 150),
   Floor |-> Get(dept, "floor", Num(1))]

\* create_department_data_stack that divides by the total of the departments
\* seen so far (the proportion set inside the first loop)
create_department_data_stack_running_total(params) ==
  LET depts == Get(params, "departments", <<>>)
  IN [i \in 1..Len(depts) |-> DeptData(params, depts[i], TotalArea(SubSeq(depts, 1, i)))]

\* DynamoSpaceplanningIntegrator.create_department_data_stack
create_department_data_stack(params) ==
  LET depts == Get(params, "departments", <<>>)
  IN [i \in 1..Len(depts) |-> DeptData(params, depts[i], TotalArea(depts))]

\* design_params after a run that takes each department off the list as it
\* puts it on the stack
DesignParamsAfterStackConsumed(params) ==
  IF Has(params, "departments") /\ Len(params["departments"]) > 0
    THEN Put(params, "departments", Tail(params["departments"]))
    ELSE params

\* design_params after a run: create_department_data_stack copies every
\* field into new mappings and no step assigns to design_params
DesignParamsAfterStack(params) == params

\* DynamoSpaceplanningIntegrator.get_kpu_dimensions
get_kpu_dimensions(params) ==
  [depths |-> Get(params, "kpu_depths", <<1500, 2000, 2500>>),
   widths |-> Get(params, "kpu_widths", <<1000, 1500, 2000>>)]

\* pool[i % len(pool)] that stays on the last entry once the pool is used up
KpuAtNoCycle(pool, i) == pool[PyMin(i, Len(pool) - 1) + 1]

\* pool[i % len(pool)], i counted from 0
KpuAt(pool, i) == pool[(i % Len(pool)) + 1]

\* the next position that leaves no gap after the footprint
NextCursorNoGap(cursor, dept_width, dept_depth) ==
  LET x == cursor.x + dept_width IN
  IF x > 8000 THEN [x |-> 1000, y |-> cursor.y + dept_depth]
  ELSE [x |-> x, y |-> cursor.y]

\* "Move to next position": current_x, current_y after a footprint
NextCursor(cursor, dept_width, dept_depth) ==
  LET x == cursor.x + dept_width + 500 IN
  IF x > 8000 THEN [x |-> 1000, y |-> cursor.y + dept_depth + 500]
  ELSE [x |-> x, y |-> cursor.y]

\* the department with its footprint and the area the footprint provides
PlacedDept(dept, cursor, dept_width, dept_depth) ==
  Put(Put(dept, "DeptPolygon",
          Polygon2d(RectanglePoints(cursor.x, cursor.y, dept_width, dept_depth))),
      "DeptAreaProvided", dept_width * dept_depth)

\* the loop of place_departments_on_site from department i (counted from 0)
RECURSIVE PlaceDepartmentsFrom(_, _, _, _)
PlaceDepartmentsFrom(stack, i, cursor, kpu) ==
  IF i >= Len(stack) THEN stack
  ELSE LET dept_width == KpuAt(kpu.widths, i)
           dept_depth == KpuAt(kpu.depths, i)
       IN PlaceDepartmentsFrom(
            [stack EXCEPT ![i + 1] = PlacedDept(@, cursor, dept_width, dept_depth)],
            i + 1, NextCursor(cursor, dept_width, dept_depth), kpu)

\* i % len(pool) on an empty pool, in the first iteration
PlaceDepartmentsRaises(params) ==
  /\ Len(Get(params, "departments", <<>>)) > 0
  /\ \/ Len(get_kpu_dimensions(params).widths) = 0
     \/ Len(get_kpu_dimensions(params).depths) = 0

\* place_departments_on_site that starts the cursor design_seed centimetres further right
place_departments_on_site_seeded(params, seed) ==
  PlaceDepartmentsFrom(create_department_data_stack(params), 0,
                       [x |-> 1000 + seed, y |-> 1000], get_kpu_dimensions(params))

\* DynamoSpaceplanningIntegrator.place_departments_on_site; design_seed is not read
place_departments_on_site(params, seed) ==
  PlaceDepartmentsFrom(create_department_data_stack(params), 0,
                       [x |-> 1000, y |-> 1000], get_kpu_dimensions(params))

\* dept_polygon.Width where the host's Polygon answers it: the extent in x.
\* MockPolygon2d has no such attribute.
PolygonWidth(polygon) == polygon.Points[2].X - polygon.Points[1].X

\* "Move to next position" inside a department
NextProgramCursor(cursor, width, depth, limit) ==
  LET x == cursor.x + width + 200 IN
  IF x > limit THEN [x |-> 0, y |-> cursor.y + depth + 200]
  ELSE [x |-> x, y |-> cursor.y]

WithProgramPolygon(program, cursor) ==
  Put(program, "ProgramPolygon",
      Polygon2d(RectanglePoints(cursor.x, cursor.y, program.Width.val, program.Depth.val)))

\* the loop over the programs of one department from program i (counted from
\* 0); it stops with AttributeError at the first read of dept_polygon.Width
\* when the polygon has no Width
RECURSIVE PlaceProgramsFrom(_, _, _, _, _)
PlaceProgramsFrom(programs, i, cursor, dept_polygon, has_width) ==
  IF i >= Len(programs) THEN [raised |-> FALSE, programs |-> programs]
  ELSE IF ~has_width
    THEN [raised |-> TRUE,
          programs |-> [programs EXCEPT ![i + 1] = WithProgramPolygon(@, cursor)]]
  ELSE PlaceProgramsFrom(
         [programs EXCEPT ![i + 1] = WithProgramPolygon(@, cursor)], i + 1,
         NextProgramCursor(cursor, programs[i + 1].Width.val, programs[i + 1].Depth.val,
                           PolygonWidth(dept_polygon)),
         dept_polygon, has_width)

\* the programs of one department, placed from the cursor (0, 0)
PlaceProgramsOf(dept, has_width) ==
  PlaceProgramsFrom(dept["ProgramsInDept"], 0, [x |-> 0, y |-> 0],
                    dept["DeptPolygon"], has_width)

\* the loop over the departments from department j (counted from 0)
RECURSIVE PlaceProgramsInDepartmentsFrom(_, _, _)
PlaceProgramsInDepartmentsFrom(stack, j, has_width) ==
  IF j >= Len(stack) THEN [raised |-> FALSE, value |-> stack]
  ELSE IF ~Has(stack[j + 1], "DeptPolygon")
    THEN PlaceProgramsInDepartmentsFrom(stack, j + 1, has_width)
  ELSE IF PlaceProgramsOf(stack[j + 1], has_width).raised
    THEN [raised |-> TRUE,
          value |-> [stack EXCEPT ![j + 1] =
                       Put(@, "ProgramsInDept", PlaceProgramsOf(@, has_width).programs)]]
  ELSE PlaceProgramsInDepartmentsFrom(
         [stack EXCEPT ![j + 1] =
            Put(@, "ProgramsInDept", PlaceProgramsOf(@, has_width).programs)],
         j + 1, has_width)

\* DynamoSpaceplanningIntegrator.place_programs_in_departments: the stack as
\* the call leaves it, and whether it raised AttributeError
place_programs_in_departments(stack, has_width) ==
  PlaceProgramsInDepartmentsFrom(stack, 0, has_width)

\* design_params after place_programs_in_departments when the stack shares its
\* program mappings with design_params: each program gets a ProgramPolygon
DesignParamsAfterProgramsAliased(params) ==
  Put(params, "departments",
      [i \in 1..Len(params["departments"]) |->
         Put(params["departments"][i], "programs",
             [j \in 1..Len(params["departments"][i].programs) |->
                Put(params["departments"][i].programs[j], "ProgramPolygon",
                    Polygon2d(RectanglePoints(0, 0,
                      params["departments"][i].programs[j].width.val,
                      params["departments"][i].programs[j].depth.val)))])])

\* design_params after place_programs_in_departments: ProgramPolygon and
\* AreaProvided are written into the program mappings of the stack, which
\* create_department_data_stack created
DesignParamsAfterPrograms(params) == params

\* the point midway between points 0 and 2 of a footprint
Center(polygon) ==
  [X |-> (polygon.Points[1].X + polygon.Points[3].X) \div 2,
   Y |-> (polygon.Points[1].Y + polygon.Points[3].Y) \div 2,
   Z |-> 0]

\* the loop of create_circulation_network from pair i (counted from 0)
RECURSIVE CirculationFrom(_, _)
CirculationFrom(stack, i) ==
  IF i >= Len(stack) - 1 THEN <<>>
  ELSE IF Has(stack[i + 1], "DeptPolygon") /\ Has(stack[i + 2], "DeptPolygon")
    THEN << [StartPoint |-> Center(stack[i + 1]["DeptPolygon"]),
             EndPoint |-> Center(stack[i + 2]["DeptPolygon"])] >>
         \o CirculationFrom(stack, i + 1)
  ELSE CirculationFrom(stack, i + 1)

\* DynamoSpaceplanningIntegrator.create_circulation_network
create_circulation_network(stack, dynamo_core_available) ==
  IF ~dynamo_core_available THEN <<>> ELSE CirculationFrom(stack, 0)

\* the loop of generate_3d_geometry: one solid per department footprint
RECURSIVE SolidsFrom(_, _)
SolidsFrom(stack, height) ==
  IF stack = <<>> THEN <<>>
  ELSE IF Has(Head(stack), "DeptPolygon")
    THEN << [profile |-> Head(stack)["DeptPolygon"], height |-> height] >>
         \o SolidsFrom(Tail(stack), height)
  ELSE SolidsFrom(Tail(stack), height)

\* DynamoSpaceplanningIntegrator.generate_3d_geometry
generate_3d_geometry(stack, height, dynamo_core_available) ==
  IF ~dynamo_core_available THEN <<>> ELSE SolidsFrom(stack, height)

\* get_building_outline_polygon
get_building_outline_polygon(params) ==
  LET points == Get(params, "site_outline",
                    << <<0, 0>>, <<10000, 0>>, <<10000, 10000>>, <<0, 10000>> >>)
  IN Polygon2d([i \in 1..Len(points) |-> Point2d(points[i][1], points[i][2])])

\* what run_complete_spaceplanning returns when no step raised
SuccessResults(params, placed, lines, solids) ==
  [success |-> TRUE,
   departments |-> placed,
   circulation |-> lines,
   geometry_3d |-> solids,
   site_outline |-> get_building_outline_polygon(params),
   design_parameters |-> params]

\* what run_complete_spaceplanning returns from its except clause
FailureResults(message) ==
  [success |-> FALSE,
   message |-> message,
   departments |-> <<>>,
   circulation |-> <<>>,
   geometry_3d |-> <<>>,
   site_outline |-> "None",
   design_parameters |-> EmptyDocument]
-----------------------------------------------------------------------------
(* The layout pass as a state machine *)

\* the rooms of a design file, one department after the other
LayoutRooms ==
  << ReaderRoom("Emergency Room", 600, 500, <<Num(1)>>, <<<<"Critical Care">>>>),
     ReaderRoom("TRAUMA BAY", 500, 400, <<Num(2)>>, <<>>),
     ReaderRoom("Operating Room", 700, 600, <<Num(2)>>, <<<<"sterile">>>>),
     ReaderRoom("Patient Bedroom", 400, 350, <<Num(3)>>, <<>>),
     ReaderRoom("Admin Office", 400, 300, <<>>, <<>>),
     ReaderRoom("Laboratory", 600, 400, <<>>, <<>>),
     ReaderRoom("Cafeteria", 1500, 1000, <<>>, <<>>),
     ReaderRoom("Storage", 0, 200, <<>>, <<>>) >>

\* the departments create_default_parameters sets
DefaultDepartments ==
  << [name |-> "Emergency Department",
      programs |-> << [name |-> "Emergency Room", area |-> 2250000, width |-> Num(1500),
                       depth |-> Num(1500), adjacency_weight |-> 300] >>,
      total_area |-> 2250000],
     [name |-> "Patient Care",
      programs |-> << [name |-> "Patient Room", area |-> 300000, width |-> Num(600),
                       depth |-> Num(500), adjacency_weight |-> 200] >>,
      total_area |-> 300000] >>

\* the department lists of the reader for the runs of rooms first..last
ReaderDepartments(first, last) ==
  get_department_data(
    Document(<<>>, << SubSeq(LayoutRooms, first, last) >>, <<>>, <<>>, <<>>, <<>>))

DepartmentLists ==
  { l \in { ReaderDepartments(first, last) :
              first \in 1..Len(LayoutRooms), last \in 0..Len(LayoutRooms) } :
      Len(l) <= MaxDepts }
  \cup {DefaultDepartments}

\* planning-unit pools a caller sets in design_params; an absent pool is
\* the default of get_kpu_dimensions
WidthPools == { <<>>, <<2000>>, <<3000>> }
DepthPools == { <<>>, <<1000, 3000>> }

Seeds == {42, 50}

\* the mapping _load_design_parameters, create_default_parameters or the
\* caller leaves in design_params
DesignParams(depts, widths, depths) ==
  [k \in {"departments", "circulation_factor"}
         \cup (IF widths = <<>> THEN {} ELSE {"kpu_widths"})
         \cup (IF depths = <<>> THEN {} ELSE {"kpu_depths"}) |->
     CASE k = "departments" -> depts
       [] k = "circulation_factor" -> 180
       [] k = "kpu_widths" -> widths[1]
       [] k = "kpu_depths" -> depths[1]]

\* an integrator is constructed; the normaliser and the reader are not used
InitLayout ==
  /\ NormalizerIdle
  /\ ReaderIdle
  /\ ProcessIdle
  /\ \E depts \in DepartmentLists, widths \in Optional(WidthPools),
        depths \in Optional(DepthPools) :
       design_params = DesignParams(depts, widths, depths)
  /\ DYNAMO_CORE_AVAILABLE \in BOOLEAN
  /\ polygon_has_width \in BOOLEAN
  /\ polygon_has_width => DYNAMO_CORE_AVAILABLE
  /\ design_seed \in Seeds
  /\ layout_pc = "ready"
  /\ placed_departments = <<>>
  /\ circulation = <<>>
  /\ geometry_3d = <<>>
  /\ results = EmptyDocument
  /\ runs = <<>>

idle_vars == <<normalizer_vars, reader_vars, process_vars>>

\* run_complete_spaceplanning, first step: place_departments_on_site returns
PlaceDepartmentsReturns ==
  /\ layout_pc = "ready"
  /\ ~PlaceDepartmentsRaises(design_params)
  /\ placed_departments' = place_departments_on_site(design_params, design_seed)
  /\ design_params' = DesignParamsAfterStack(design_params)
  /\ layout_pc' = "departments"
  /\ UNCHANGED <<DYNAMO_CORE_AVAILABLE, polygon_has_width, design_seed, circulation,
                 geometry_3d, results, runs, idle_vars>>

\* place_departments_on_site raises ZeroDivisionError and the except clause
\* of run_complete_spaceplanning returns the failure results
PlaceDepartmentsFails ==
  /\ layout_pc = "ready"
  /\ PlaceDepartmentsRaises(design_params)
  /\ results' = FailureResults("ZeroDivisionError")
  /\ layout_pc' = "failed"
  /\ UNCHANGED <<design_params, DYNAMO_CORE_AVAILABLE, polygon_has_width, design_seed,
                 placed_departments, circulation, geometry_3d, runs, idle_vars>>

\* second step: place_programs_in_departments returns
PlaceProgramsReturns ==
  /\ layout_pc = "departments"
  /\ ~place_programs_in_departments(placed_departments, polygon_has_width).raised
  /\ placed_departments' =
       place_programs_in_departments(placed_departments, polygon_has_width).value
  /\ design_params' = DesignParamsAfterPrograms(design_params)
  /\ layout_pc' = "programs"
  /\ UNCHANGED <<DYNAMO_CORE_AVAILABLE, polygon_has_width, design_seed,
                 circulation, geometry_3d, results, runs, idle_vars>>

\* place_programs_in_departments raises AttributeError; the stack keeps the
\* program footprints set before that
PlaceProgramsFails ==
  /\ layout_pc = "departments"
  /\ place_programs_in_departments(placed_departments, polygon_has_width).raised
  /\ placed_departments' =
       place_programs_in_departments(placed_departments, polygon_has_width).value
  /\ design_params' = DesignParamsAfterPrograms(design_params)
  /\ results' = FailureResults("AttributeError")
  /\ layout_pc' = "failed"
  /\ UNCHANGED <<DYNAMO_CORE_AVAILABLE, polygon_has_width, design_seed,
                 circulation, geometry_3d, runs, idle_vars>>

\* third step: create_circulation_network
CreateCirculationNetwork ==
  /\ layout_pc = "programs"
  /\ circulation' = create_circulation_network(placed_departments, DYNAMO_CORE_AVAILABLE)
  /\ layout_pc' = "circulation"
  /\ UNCHANGED <<design_params, DYNAMO_CORE_AVAILABLE, polygon_has_width, design_seed,
                 placed_departments, geometry_3d, results, runs, idle_vars>>

\* a caller passes the list place_departments_on_site returned to
\* create_circulation_network itself
CirculationNetworkCalled ==
  /\ layout_pc = "departments"
  /\ circulation' = create_circulation_network(placed_departments, DYNAMO_CORE_AVAILABLE)
  /\ layout_pc' = "circulation_called"
  /\ UNCHANGED <<design_params, DYNAMO_CORE_AVAILABLE, polygon_has_width, design_seed,
                 placed_departments, geometry_3d, results, runs, idle_vars>>

\* fourth step: generate_3d_geometry with its default height, and the return
Generate3dGeometry ==
  /\ layout_pc = "circulation"
  /\ geometry_3d' = generate_3d_geometry(placed_departments, 300, DYNAMO_CORE_AVAILABLE)
  /\ results' = SuccessResults(design_params, placed_departments, circulation, geometry_3d')
  /\ layout_pc' = "done"
  /\ UNCHANGED <<design_params, DYNAMO_CORE_AVAILABLE, polygon_has_width, design_seed,
                 placed_departments, circulation, runs, idle_vars>>

\* what a run leaves behind
Run ==
  [design_seed |-> design_seed, departments |-> placed_departments,
   circulation |-> circulation, results |-> results]

\* the caller calls run_complete_spaceplanning again, with any design_seed
RunAgain ==
  /\ layout_pc \in {"done", "failed"}
  /\ Len(runs) + 1 < MaxRuns
  /\ runs' = Append(runs, Run)
  /\ design_seed' \in Seeds
  /\ layout_pc' = "ready"
  /\ placed_departments' = <<>>
  /\ circulation' = <<>>
  /\ geometry_3d' = <<>>
  /\ results' = EmptyDocument
  /\ UNCHANGED <<design_params, DYNAMO_CORE_AVAILABLE, polygon_has_width, idle_vars>>

NextLayout ==
  \/ PlaceDepartmentsReturns
  \/ PlaceDepartmentsFails
  \/ PlaceProgramsReturns
  \/ PlaceProgramsFails
  \/ CreateCirculationNetwork
  \/ CirculationNetworkCalled
  \/ Generate3dGeometry
  \/ RunAgain

SpecLayout == InitLayout /\ [][NextLayout]_vars
-----------------------------------------------------------------------------
(* process_gemini_json_for_spaceplanning: the reader's design parameters *)

\* the import of gemini_json_reader, which lies next to the module
GEMINI_READER_AVAILABLE == TRUE

\* what is stored at json_path
JsonFile(kind, content) == [kind |-> kind, content |-> content]

\* GeminiJsonReader.load_json: the parsed document, {} when open or json.load raises
load_json(file) == IF file.kind = "document" THEN file.content ELSE EmptyDocument

\* GeminiJsonReader.get_site_outline_points
reader_get_site_outline_points(d) ==
  IF DOMAIN d = {} \/ ~Has(d, "project")
  THEN << <<0, 0>>, <<10000, 0>>, <<10000, 10000>>, <<0, 10000>> >>
  ELSE LET site == Get(d["project"], "site", EmptyDocument)
           width == Get(site, "width", 10000)
           depth == Get(site, "depth", 10000)
       IN << <<0, 0>>, <<width, 0>>, <<width, depth>>, <<0, depth>> >>

\* GeminiJsonReader.get_building_outline_points
reader_get_building_outline_points(d) == reader_get_site_outline_points(d)

\* GeminiJsonReader.get_circulation_factor, in hundredths
get_circulation_factor(d) ==
  IF DOMAIN d = {} \/ ~Has(d, "project") THEN 150
  ELSE LET project_name == lower(Spell(Get(d["project"], "name", ""))) IN
       IF AnyKeywordIn({"hospital", "medical", "clinic"}, project_name) THEN 180
       ELSE IF AnyKeywordIn({"office", "corporate"}, project_name) THEN 140
       ELSE IF AnyKeywordIn({"retail", "mall", "shopping"}, project_name) THEN 160
       ELSE IF AnyKeywordIn({"residential", "apartment", "housing"}, project_name) THEN 130
       ELSE 150

\* room['name'], room['width'] or room['depth'] raises KeyError in get_department_data
GetDesignParametersRaises(d) ==
  /\ Has(d, "rooms")
  /\ \E i \in 1..Len(d["rooms"]) : ~({"name", "width", "depth"} \subseteq DOMAIN d["rooms"][i])

\* GeminiJsonReader.get_design_parameters: the keys the layout pass reads (the
\* other keys hand sections of the file through)
get_design_parameters(d) ==
  [site_outline |-> reader_get_site_outline_points(d),
   building_outline |-> reader_get_building_outline_points(d),
   departments |-> get_department_data(d),
   kpu_depths |-> reader_get_kpu_dimensions(d)[1],
   kpu_widths |-> reader_get_kpu_dimensions(d)[2],
   circulation_factor |-> get_circulation_factor(d)]

\* DynamoSpaceplanningIntegrator.create_default_parameters
create_default_parameters ==
  [site_outline |-> << <<0, 0>>, <<10000, 0>>, <<10000, 15000>>, <<0, 15000>> >>,
   building_outline |-> << <<0, 0>>, <<10000, 0>>, <<10000, 15000>>, <<0, 15000>> >>,
   departments |-> DefaultDepartments,
   kpu_depths |-> <<1500, 2000, 2500>>,
   kpu_widths |-> <<1000, 1500, 2000>>,
   circulation_factor |-> 180,
   building_info |-> [floors |-> 3, floor_height |-> 350, total_height |-> 1050]]

\* initialize_reader that constructs the reader without asking os.path.exists
initialize_reader_without_exists(file) ==
  IF GetDesignParametersRaises(load_json(file))
  THEN create_default_parameters
  ELSE get_design_parameters(load_json(file))

\* DynamoSpaceplanningIntegrator.__init__ and initialize_reader: design_params
\* of a new integrator
initialize_reader(file) ==
  IF GEMINI_READER_AVAILABLE /\ file.kind # "missing"
  THEN IF GetDesignParametersRaises(load_json(file))
       THEN create_default_parameters
       ELSE get_design_parameters(load_json(file))
  ELSE create_default_parameters

\* the override of the circulation factor that applies every value passed
OverrideCirculationFactorAlways(params, circulation_factor) ==
  Put(params, "circulation_factor", circulation_factor)

\* if circulation_factor != 1.8: design_params['circulation_factor'] = circulation_factor
OverrideCirculationFactor(params, circulation_factor) ==
  IF circulation_factor # 180
  THEN Put(params, "circulation_factor", circulation_factor)
  ELSE params

\* the stack after the first two steps of run_complete_spaceplanning
ProgramsPlaced(params, seed, has_width) ==
  place_programs_in_departments(place_departments_on_site(params, seed), has_width)

\* DynamoSpaceplanningIntegrator.run_complete_spaceplanning, from the call to the return
run_complete_spaceplanning(params, seed, dynamo_core_available, has_width) ==
  IF PlaceDepartmentsRaises(params) THEN FailureResults("ZeroDivisionError")
  ELSE IF ProgramsPlaced(params, seed, has_width).raised THEN FailureResults("AttributeError")
  ELSE SuccessResults(params,
                      ProgramsPlaced(params, seed, has_width).value,
                      create_circulation_network(ProgramsPlaced(params, seed, has_width).value,
                                                 dynamo_core_available),
                      generate_3d_geometry(ProgramsPlaced(params, seed, has_width).value,
                                           300, dynamo_core_available))

-----------------------------------------------------------------------------
(* process_gemini_json_for_spaceplanning as a state machine *)

\* the project sections of the design files
ProcessProjects ==
  { [name |-> "Clinic"],
    [name |-> "Office Park", site |-> [width |-> 6000, depth |-> 4000]],
    [style |-> "modern"] }

\* the room lists of the design files: runs of up to MaxRooms rooms, and a
\* room without a width
ProcessRoomLists ==
  { l \in { SubSeq(LayoutRooms, first, last) :
              first \in 1..Len(LayoutRooms), last \in 0..Len(LayoutRooms) } :
      Len(l) <= MaxRooms }

RoomWithoutWidth == Room("Atrium", <<>>, <<Num(1600)>>, <<>>, <<>>, <<>>)

JsonFiles ==
  { JsonFile("missing", EmptyDocument), JsonFile("unparseable", EmptyDocument) }
  \cup { JsonFile("document", Document(p, r, <<>>, <<>>, <<>>, <<>>)) :
           p \in Optional(ProcessProjects),
           r \in Optional(ProcessRoomLists \cup {<<RoomWithoutWidth>>}) }

\* design_seed, circulation_factor and acceptable_width of a call; 50, 1.8
\* and 18.0 are the defaults
CirculationFactors == {150, 180}
AcceptableWidths == {1800, 2400}
ProcessArgs ==
  [design_seed : Seeds, circulation_factor : CirculationFactors,
   acceptable_width : AcceptableWidths]

InitProcess ==
  /\ NormalizerIdle
  /\ ReaderIdle
  /\ json_file \in JsonFiles
  /\ args = DefaultArgs
  /\ design_params = EmptyDocument
  /\ DYNAMO_CORE_AVAILABLE \in BOOLEAN
  /\ polygon_has_width \in BOOLEAN
  /\ polygon_has_width => DYNAMO_CORE_AVAILABLE
  /\ design_seed = 50
  /\ layout_pc = "idle"
  /\ placed_departments = <<>>
  /\ circulation = <<>>
  /\ geometry_3d = <<>>
  /\ results = EmptyDocument
  /\ runs = <<>>

\* one call of process_gemini_json_for_spaceplanning: a new integrator is
\* constructed from the file, the factor is overridden, the run returns
Process ==
  /\ layout_pc \in {"idle", "returned"}
  /\ Len(runs) < MaxProcessCalls
  /\ \E params \in {initialize_reader(json_file)}, a \in ProcessArgs :
       /\ args' = a
       /\ design_params' = OverrideCirculationFactor(params, a.circulation_factor)
       /\ results' = run_complete_spaceplanning(design_params', a.design_seed,
                                                DYNAMO_CORE_AVAILABLE, polygon_has_width)
       /\ runs' = Append(runs, [args |-> a, results |-> results'])
  /\ layout_pc' = "returned"
  /\ UNCHANGED <<json_file, DYNAMO_CORE_AVAILABLE, polygon_has_width, design_seed,
                 placed_departments, circulation, geometry_3d, normalizer_vars, reader_vars>>

NextProcess == Process

SpecProcess == InitProcess /\ [][NextProcess]_vars

-----------------------------------------------------------------------------
(* src/deployment/dynamo_spaceplanning_integration.py: the deployed integrator *)

\* MockGeometry(geometry_type, **kwargs) for a line and for a surface
MockLine(start, end) == [type |-> "Line", start |-> start, end |-> end]
MockSurface(polygon, height) == [type |-> "Surface", polygon |-> polygon, height |-> height]

\* one iteration of the inner loop of place_programs_in_departments: program i
\* (counted from 0) with its ProgramPolygon and AreaProvided
DeploymentPlacedProgram(program, i) ==
  LET prog_width == Get(program, "Width", Num(500)).val
      prog_depth == Get(program, "Depth", Num(500)).val
      offset_x == (i % 2) * prog_width
      offset_y == (i \div 2) * prog_depth
  IN Put(Put(program, "ProgramPolygon",
             Polygon2d(RectanglePoints(offset_x, offset_y, prog_width, prog_depth))),
         "AreaProvided", prog_width * prog_depth)

\* the programs of a department after the inner loop
DeploymentPlacedPrograms(programs) ==
  [k \in 1..Len(programs) |-> DeploymentPlacedProgram(programs[k], k - 1)]

\* one iteration of the outer loop of place_programs_in_departments
DeploymentProgramsOf(dept) ==
  IF Get(dept, "ProgramsInDept", <<>>) = <<>> \/ ~Has(dept, "DeptPolygon") THEN dept
  ELSE Put(Put(dept, "ProgramsInDept", DeploymentPlacedPrograms(dept["ProgramsInDept"])),
           "ProgramPolygons",
           [k \in 1..Len(dept["ProgramsInDept"]) |->
              DeploymentPlacedPrograms(dept["ProgramsInDept"])[k]["ProgramPolygon"]])

\* place_programs_in_departments of the deployed integrator
deployment_place_programs_in_departments(stack) ==
  [j \in 1..Len(stack) |-> DeploymentProgramsOf(stack[j])]

\* the line create_circulation_network appends for a pair of departments: the
\* two end points are fixed
DeploymentCirculationLine(dept1, dept2, host_geometry) ==
  IF host_geometry
  THEN [StartPoint |-> [X |-> 5000, Y |-> 5000, Z |-> 0],
        EndPoint |-> [X |-> 7500, Y |-> 7500, Z |-> 0]]
  ELSE MockLine(<<5000, 5000>>, <<7500, 7500>>)

\* the inner loop of create_circulation_network: department i with each later one
RECURSIVE DeploymentCirculationRow(_, _, _, _)
DeploymentCirculationRow(stack, i, j, host_geometry) ==
  IF j > Len(stack) THEN <<>>
  ELSE <<DeploymentCirculationLine(stack[i], stack[j], host_geometry)>>
       \o DeploymentCirculationRow(stack, i, j + 1, host_geometry)

\* the outer loop of create_circulation_network from department i
RECURSIVE DeploymentCirculationFrom(_, _, _)
DeploymentCirculationFrom(stack, i, host_geometry) ==
  IF i > Len(stack) THEN <<>>
  ELSE DeploymentCirculationRow(stack, i, i + 1, host_geometry)
       \o DeploymentCirculationFrom(stack, i + 1, host_geometry)

\* create_circulation_network of the deployed integrator
deployment_create_circulation_network(stack, host_geometry) ==
  DeploymentCirculationFrom(stack, 1, host_geometry)

\* the surfaces of the programs of a department that have a ProgramPolygon
RECURSIVE DeploymentProgramSurfaces(_)
DeploymentProgramSurfaces(programs) ==
  IF programs = <<>> THEN <<>>
  ELSE IF Has(Head(programs), "ProgramPolygon")
    THEN << [profile |-> Head(programs)["ProgramPolygon"],
             height |-> Get(Head(programs), "Height", Num(300)).val] >>
         \o DeploymentProgramSurfaces(Tail(programs))
  ELSE DeploymentProgramSurfaces(Tail(programs))

\* generate_3d_geometry of the deployed integrator
RECURSIVE deployment_generate_3d_geometry(_, _, _)
deployment_generate_3d_geometry(stack, height, host_geometry) ==
  IF stack = <<>> THEN <<>>
  ELSE IF ~Has(Head(stack), "DeptPolygon")
    THEN deployment_generate_3d_geometry(Tail(stack), height, host_geometry)
  ELSE IF host_geometry
    THEN << [profile |-> Head(stack)["DeptPolygon"], height |-> height] >>
         \o DeploymentProgramSurfaces(Get(Head(stack), "ProgramsInDept", <<>>))
         \o deployment_generate_3d_geometry(Tail(stack), height, host_geometry)
  ELSE << MockSurface(Head(stack)["DeptPolygon"], height) >>
       \o deployment_generate_3d_geometry(Tail(stack), height, host_geometry)

\* get_site_outline_points of the deployed integrator
deployment_get_site_outline_points(params) ==
  LET points == Get(params, "site_outline",
                    << <<0, 0>>, <<10000, 0>>, <<10000, 10000>>, <<0, 10000>> >>)
  IN [i \in 1..Len(points) |-> Point2d(points[i][1], points[i][2])]

\* the step of the planning grid, 5.0
GridSpacing == 500

\* create_grid_points: the points of the bounding box of the site, column by column
create_grid_points(params) ==
  LET site_points == Get(params, "site_outline",
                         << <<0, 0>>, <<10000, 0>>, <<10000, 10000>>, <<0, 10000>> >>)
      min_x == MinOf({ site_points[i][1] : i \in 1..Len(site_points) })
      max_x == MaxOf({ site_points[i][1] : i \in 1..Len(site_points) })
      min_y == MinOf({ site_points[i][2] : i \in 1..Len(site_points) })
      max_y == MaxOf({ site_points[i][2] : i \in 1..Len(site_points) })
      rows == (max_y - min_y) \div GridSpacing + 1
      columns == (max_x - min_x) \div GridSpacing + 1
  IN [k \in 1..(rows * columns) |->
        Point2d(min_x + ((k - 1) \div rows) * GridSpacing,
                min_y + ((k - 1) % rows) * GridSpacing)]

\* what run_complete_spaceplanning of the deployed integrator returns when no step raised
DeploymentSuccessResults(params, placed, lines, solids) ==
  [departments |-> placed,
   circulation |-> lines,
   geometry_3d |-> solids,
   site_outline |-> deployment_get_site_outline_points(params),
   building_outline |-> Polygon2d(deployment_get_site_outline_points(params)),
   grid_points |-> create_grid_points(params),
   design_parameters |-> params,
   success |-> TRUE,
   message |-> "Spaceplanning completed successfully"]

\* what it returns from its except clause
DeploymentFailureResults(error) ==
  [success |-> FALSE, message |-> <<"Error in spaceplanning: ", error>>, error |-> error]

-----------------------------------------------------------------------------
(* The deployed layout pass as a state machine *)

\* an integrator of the deployed module is constructed; host_geometry is
\* DYNAMO_CORE_AVAILABLE: the imports of the host's geometry and of stuffer succeed
InitDeployment ==
  /\ InitLayout
  /\ ~polygon_has_width

\* first step: place_departments_on_site returns
DeploymentPlaceDepartmentsReturns ==
  /\ layout_pc = "ready"
  /\ ~PlaceDepartmentsRaises(design_params)
  /\ placed_departments' = place_departments_on_site(design_params, design_seed)
  /\ layout_pc' = "departments"
  /\ UNCHANGED <<design_params, DYNAMO_CORE_AVAILABLE, polygon_has_width, design_seed,
                 circulation, geometry_3d, results, runs, idle_vars>>

\* place_departments_on_site raises ZeroDivisionError and the except clause returns
DeploymentPlaceDepartmentsFails ==
  /\ layout_pc = "ready"
  /\ PlaceDepartmentsRaises(design_params)
  /\ results' = DeploymentFailureResults("ZeroDivisionError")
  /\ layout_pc' = "failed"
  /\ UNCHANGED <<design_params, DYNAMO_CORE_AVAILABLE, polygon_has_width, design_seed,
                 placed_departments, circulation, geometry_3d, runs, idle_vars>>

\* second step: place_programs_in_departments
DeploymentPlacePrograms ==
  /\ layout_pc = "departments"
  /\ placed_departments' = deployment_place_programs_in_departments(placed_departments)
  /\ layout_pc' = "programs"
  /\ UNCHANGED <<design_params, DYNAMO_CORE_AVAILABLE, polygon_has_width, design_seed,
                 circulation, geometry_3d, results, runs, idle_vars>>

\* third step: create_circulation_network
DeploymentCreateCirculationNetwork ==
  /\ layout_pc = "programs"
  /\ circulation' =
       deployment_create_circulation_network(placed_departments, DYNAMO_CORE_AVAILABLE)
  /\ layout_pc' = "circulation"
  /\ UNCHANGED <<design_params, DYNAMO_CORE_AVAILABLE, polygon_has_width, design_seed,
                 placed_departments, geometry_3d, results, runs, idle_vars>>

\* fourth and fifth step: generate_3d_geometry with its default height, and the results
DeploymentGenerate3dGeometry ==
  /\ layout_pc = "circulation"
  /\ geometry_3d' =
       deployment_generate_3d_geometry(placed_departments, 300, DYNAMO_CORE_AVAILABLE)
  /\ results' = DeploymentSuccessResults(design_params, placed_departments, circulation,
                                         geometry_3d')
  /\ layout_pc' = "done"
  /\ UNCHANGED <<design_params, DYNAMO_CORE_AVAILABLE, polygon_has_width, design_seed,
                 placed_departments, circulation, runs, idle_vars>>

NextDeployment ==
  \/ DeploymentPlaceDepartmentsReturns
  \/ DeploymentPlaceDepartmentsFails
  \/ DeploymentPlacePrograms
  \/ DeploymentCreateCirculationNetwork
  \/ DeploymentGenerate3dGeometry

SpecDeployment == InitDeployment /\ [][NextDeployment]_vars

-----------------------------------------------------------------------------
(* Properties of the department data stack *)

RECURSIVE GCD(_, _)
GCD(a, b) == IF b = 0 THEN a ELSE GCD(b, a % b)

\* a fraction with a positive denominator, in lowest terms
Reduced(q) == [num |-> q.num \div GCD(q.num, q.den), den |-> q.den \div GCD(q.num, q.den)]

SameFraction(p, q) == Reduced(p) = Reduced(q)

\* the sum of two fractions over their least common denominator
Plus(p, q) ==
  LET g == GCD(Reduced(p).den, Reduced(q).den) IN
  Reduced([num |-> Reduced(p).num * (Reduced(q).den \div g)
                   + Reduced(q).num * (Reduced(p).den \div g),
           den |-> (Reduced(p).den \div g) * Reduced(q).den])

RECURSIVE SumOfProportions(_)
SumOfProportions(stack) ==
  IF stack = <<>> THEN Zero
  ELSE Plus(Head(stack)["DeptAreaProportionNeeded"], SumOfProportions(Tail(stack)))

RECURSIVE SumOfAreaNeeded(_)
SumOfAreaNeeded(stack) ==
  IF stack = <<>> THEN 0
  ELSE Head(stack)["DeptAreaNeeded"] + SumOfAreaNeeded(Tail(stack))

\* C11: in the stack create_department_data_stack builds, the proportion of
\* every department is its DeptAreaNeeded divided by the sum of all
\* DeptAreaNeeded; the proportions sum to 1 when that sum is positive, and
\* every proportion is 0 when the sum is 0.
C11_Proportions ==
  placed_departments # <<>> =>
    LET total == SumOfAreaNeeded(placed_departments) IN
    /\ total > 0 =>
         /\ \A i \in 1..Len(placed_departments) :
              SameFraction(placed_departments[i]["DeptAreaProportionNeeded"],
                           Quotient(placed_departments[i]["DeptAreaNeeded"], total))
         /\ SameFraction(SumOfProportions(placed_departments), Quotient(1, 1))
    /\ total = 0 =>
         \A i \in 1..Len(placed_departments) :
           SameFraction(placed_departments[i]["DeptAreaProportionNeeded"], Zero)

\* a stack of three or more departments of different areas, one of them of area 0
C11_Witness ==
  /\ Len(placed_departments) >= 3
  /\ SumOfAreaNeeded(placed_departments) > 0
  /\ \E i \in 1..Len(placed_departments) : placed_departments[i]["DeptAreaNeeded"] = 0
  /\ \E i, j \in 1..Len(placed_departments) :
       /\ placed_departments[i]["DeptAreaNeeded"] > 0
       /\ ~SameFraction(placed_departments[i]["DeptAreaProportionNeeded"],
                        placed_departments[j]["DeptAreaProportionNeeded"])

\* the stack of a design whose only department has area 0
C11_ZeroTotalReached ==
  /\ placed_departments # <<>>
  /\ SumOfAreaNeeded(placed_departments) = 0
-----------------------------------------------------------------------------
(* Properties of the department packing *)

\* the departments have been placed in the current run
Placed == layout_pc \in {"departments", "programs", "circulation", "circulation_called", "done"}
            \/ (layout_pc = "failed" /\ results["message"] = "AttributeError")

FootprintOf(dept) == dept["DeptPolygon"].Points

\* the bounding box of a footprint
BoxOf(points) ==
  [x0 |-> MinOf({ points[k].X : k \in 1..Len(points) }),
   x1 |-> MaxOf({ points[k].X : k \in 1..Len(points) }),
   y0 |-> MinOf({ points[k].Y : k \in 1..Len(points) }),
   y1 |-> MaxOf({ points[k].Y : k \in 1..Len(points) })]

\* two boxes share interior points
Overlap(a, b) == a.x0 < b.x1 /\ b.x0 < a.x1 /\ a.y0 < b.y1 /\ b.y0 < a.y1

\* two boxes are at least gap apart along x or along y
Apart(a, b, gap) ==
  \/ b.x0 - a.x1 >= gap
  \/ a.x0 - b.x1 >= gap
  \/ b.y0 - a.y1 >= gap
  \/ a.y0 - b.y1 >= gap

PoolWidths == Get(design_params, "kpu_widths", <<1000, 1500, 2000>>)
PoolDepths == Get(design_params, "kpu_depths", <<1500, 2000, 2500>>)

\* the size the claim gives department i (counted from 1)
CyclicWidth(i) == PoolWidths[((i - 1) % Len(PoolWidths)) + 1]
CyclicDepth(i) == PoolDepths[((i - 1) % Len(PoolDepths)) + 1]

\* the cursor moved past the right limit after department i
Wraps(i) == FootprintOf(placed_departments[i])[1].X + CyclicWidth(i) + 500 > 8000

\* C13: place_departments_on_site places the departments in list order,
\* department i with the cyclic sizes kpu_widths[i mod len] and kpu_depths[i
\* mod len]; the footprint is the rectangle with its lower-left corner at the
\* cursor, which starts at (10, 10); DeptAreaProvided is width * depth; the
\* cursor moves right by width + 5 and, once x exceeds 80, x goes back to 10
\* and y moves up by that department's depth + 5.
C13_PlacementRule ==
  Placed =>
    /\ Len(placed_departments) = Len(design_params["departments"])
    /\ \A i \in 1..Len(placed_departments) :
         LET dept == placed_departments[i]
             corner == FootprintOf(dept)[1]
         IN /\ dept["DeptName"] = design_params["departments"][i].name
            /\ FootprintOf(dept) =
                 << [X |-> corner.X, Y |-> corner.Y],
                    [X |-> corner.X + CyclicWidth(i), Y |-> corner.Y],
                    [X |-> corner.X + CyclicWidth(i), Y |-> corner.Y + CyclicDepth(i)],
                    [X |-> corner.X, Y |-> corner.Y + CyclicDepth(i)] >>
            /\ dept["DeptAreaProvided"] = CyclicWidth(i) * CyclicDepth(i)
            /\ i = 1 => corner = [X |-> 1000, Y |-> 1000]
            /\ i < Len(placed_departments) =>
                 FootprintOf(placed_departments[i + 1])[1] =
                   IF Wraps(i)
                     THEN [X |-> 1000, Y |-> corner.Y + CyclicDepth(i) + 500]
                     ELSE [X |-> corner.X + CyclicWidth(i) + 500, Y |-> corner.Y]

\* more departments than pool entries, placed in two rows or more
C13_Witness ==
  /\ Placed
  /\ Len(placed_departments) > Len(PoolWidths)
  /\ Len(placed_departments) > Len(PoolDepths)
  /\ Len(PoolDepths) > 1
  /\ \E i \in 1..(Len(placed_departments) - 1) : Wraps(i)
  /\ \E i \in 1..(Len(placed_departments) - 1) : ~Wraps(i)

PositivePools ==
  /\ PoolWidths # <<>>
  /\ PoolDepths # <<>>
  /\ \A k \in 1..Len(PoolWidths) : PoolWidths[k] > 0
  /\ \A k \in 1..Len(PoolDepths) : PoolDepths[k] > 0

\* C14: for every department list and every non-empty pool of positive
\* widths and depths, the footprints of departments i and i + 1 do not
\* overlap and are at least 5 apart.
C14_ConsecutiveApart ==
  (Placed /\ PositivePools) =>
    \A i \in 1..(Len(placed_departments) - 1) :
      /\ ~Overlap(BoxOf(FootprintOf(placed_departments[i])),
                  BoxOf(FootprintOf(placed_departments[i + 1])))
      /\ Apart(BoxOf(FootprintOf(placed_departments[i])),
               BoxOf(FootprintOf(placed_departments[i + 1])), 500)

\* a pair in one row and a pair across a row change
C14_Witness ==
  /\ Placed
  /\ PositivePools
  /\ \E i \in 1..(Len(placed_departments) - 1) :
       FootprintOf(placed_departments[i + 1])[1].Y > FootprintOf(placed_departments[i])[1].Y
  /\ \E i \in 1..(Len(placed_departments) - 1) :
       FootprintOf(placed_departments[i + 1])[1].Y = FootprintOf(placed_departments[i])[1].Y

\* C15: all placed department footprints are pairwise non-overlapping, in
\* one row or in different rows.
C15_PairwiseDisjoint ==
  (Placed /\ PositivePools) =>
    \A i, j \in 1..Len(placed_departments) :
      i < j => ~Overlap(BoxOf(FootprintOf(placed_departments[i])),
                        BoxOf(FootprintOf(placed_departments[j])))

\* the department list is empty, or the width pool or the depth pool is
Degenerate ==
  \/ design_params["departments"] = <<>>
  \/ PoolWidths = <<>>
  \/ PoolDepths = <<>>

\* C16: on a degenerate input place_departments_on_site returns an empty
\* list without raising, and run_complete_spaceplanning reports an empty but
\* well-formed result.
C16_DegenerateGivesEmptyLayout ==
  (Degenerate /\ layout_pc # "ready") =>
    /\ layout_pc # "failed"
    /\ placed_departments = <<>>
    /\ layout_pc = "done" =>
         /\ results["success"]
         /\ results["departments"] = <<>>
         /\ results["circulation"] = <<>>
         /\ results["geometry_3d"] = <<>>
-----------------------------------------------------------------------------
(* Properties of the program placement, the circulation and the volumes *)

\* place_programs_in_departments has ended in the current run, by a return or
\* by an exception
ProgramsStepEnded ==
  \/ layout_pc \in {"programs", "circulation", "done"}
  \/ (layout_pc = "failed" /\ results["message"] = "AttributeError")

\* C17: after place_programs_in_departments, every program of every
\* department that has a footprint has a footprint polygon of its own, of
\* its width by its depth, the first of each department at (0, 0).
C17_EveryProgramPlaced ==
  ProgramsStepEnded =>
    \A j \in 1..Len(placed_departments) :
      Has(placed_departments[j], "DeptPolygon") =>
        \A i \in 1..Len(placed_departments[j]["ProgramsInDept"]) :
          LET program == placed_departments[j]["ProgramsInDept"][i] IN
          /\ Has(program, "ProgramPolygon")
          /\ BoxOf(program["ProgramPolygon"].Points).x1
               - BoxOf(program["ProgramPolygon"].Points).x0 = program["Width"].val
          /\ BoxOf(program["ProgramPolygon"].Points).y1
               - BoxOf(program["ProgramPolygon"].Points).y0 = program["Depth"].val
          /\ i = 1 => program["ProgramPolygon"].Points[1] = [X |-> 0, Y |-> 0]

\* the centroid of a rectangular footprint
Centroid(points) ==
  [X |-> (BoxOf(points).x0 + BoxOf(points).x1) \div 2,
   Y |-> (BoxOf(points).y0 + BoxOf(points).y1) \div 2,
   Z |-> 0]

\* C18: for n placed departments create_circulation_network returns one edge
\* per adjacent pair in placement order (n - 1 edges when n >= 1, none when
\* n = 0), and edge (i, i + 1) connects the centroids of the two footprints.
C18_OneEdgePerAdjacentPair ==
  layout_pc \in {"circulation", "circulation_called", "done"} =>
    /\ Len(circulation) = IF Len(placed_departments) >= 1
                            THEN Len(placed_departments) - 1 ELSE 0
    /\ \A i \in 1..Len(circulation) :
         /\ circulation[i].StartPoint = Centroid(FootprintOf(placed_departments[i]))
         /\ circulation[i].EndPoint = Centroid(FootprintOf(placed_departments[i + 1]))

\* the programs of the placed departments that have a footprint
PlacedPrograms ==
  { <<j, i>> \in (1..Len(placed_departments)) \X (1..(MaxDepts + 3)) :
      /\ i <= Len(placed_departments[j]["ProgramsInDept"])
      /\ Has(placed_departments[j]["ProgramsInDept"][i], "ProgramPolygon") }

DepartmentsWithFootprint ==
  { j \in 1..Len(placed_departments) : Has(placed_departments[j], "DeptPolygon") }

\* C19: generate_3d_geometry emits one volume per department with a
\* footprint and one per program with a footprint, each program's volume
\* extruded by that program's height, and none for an entity without a
\* footprint.
C19_OneVolumePerFootprint ==
  layout_pc = "done" =>
    /\ Len(geometry_3d) = Cardinality(DepartmentsWithFootprint) + Cardinality(PlacedPrograms)
    /\ \A j \in DepartmentsWithFootprint :
         \E k \in 1..Len(geometry_3d) :
           geometry_3d[k].profile = placed_departments[j]["DeptPolygon"]
    /\ \A p \in PlacedPrograms :
         LET program == placed_departments[p[1]]["ProgramsInDept"][p[2]] IN
         \E k \in 1..Len(geometry_3d) :
           /\ geometry_3d[k].profile = program["ProgramPolygon"]
           /\ geometry_3d[k].height = program["Height"].val

\* the runs that have ended, the current one included
EndedRuns == IF layout_pc \in {"done", "failed"} THEN Append(runs, Run) ELSE runs

-----------------------------------------------------------------------------
(* Properties of the normaliser of src/api/index.py *)

\* the position the claim gives a room: its own, or the origin
PositionOrOrigin(room) == Get(room, "position", Origin)

\* C24: in the normaliser of src/api/index.py a room without a position
\* counts as positioned at the origin: the derived walls are 4 per room, and
\* a room whose width or depth exceeds 8 gets its column, at the centre of
\* its footprint from the origin.
C24_NoPositionAtOrigin ==
  (Returned /\ DOMAIN input # {} /\ Has(input, "rooms")) =>
    /\ MissingOrEmpty(input, "walls") =>
         Len(design_data["walls"]) = 4 * Len(design_data["rooms"])
    /\ MissingOrEmpty(input, "structural") =>
         \A i \in 1..Len(design_data["rooms"]) :
           LET room == design_data["rooms"][i] IN
           ApiLargeSpan(room) =>
             \E k \in 1..Len(design_data["structural"]) :
               design_data["structural"][k].position =
                 Point(PositionOrOrigin(room).x + Get(room, "width", Num(1000)).val \div 2,
                       PositionOrOrigin(room).y + Get(room, "depth", Num(1000)).val \div 2,
                       PositionOrOrigin(room).z)
-----------------------------------------------------------------------------
(* The dimension pools of the reader *)

\* the rooms of the loaded design file
LoadedRooms == IF Has(data, "rooms") THEN data["rooms"] ELSE <<>>

StrictlyAscending(values) ==
  \A i \in 1..Len(values), j \in 1..Len(values) : i < j => values[i] < values[j]

\* C30: the pools get_kpu_dimensions returns are never empty; with at least one
\* room they are the strictly ascending lists of the distinct room depths and of
\* the distinct room widths, without rooms they are [15, 20, 25] and [10, 15, 20]
C30_KpuPools ==
  kpu_dimensions # <<>> =>
    /\ kpu_dimensions[1] # <<>>
    /\ kpu_dimensions[2] # <<>>
    /\ IF LoadedRooms # <<>>
       THEN /\ StrictlyAscending(kpu_dimensions[1])
            /\ StrictlyAscending(kpu_dimensions[2])
            /\ SetOf(kpu_dimensions[1])
                 = { LoadedRooms[i]["depth"].val : i \in 1..Len(LoadedRooms) }
            /\ SetOf(kpu_dimensions[2])
                 = { LoadedRooms[i]["width"].val : i \in 1..Len(LoadedRooms) }
       ELSE kpu_dimensions = <<<<1500, 2000, 2500>>, <<1000, 1500, 2000>>>>

\* two rooms of one depth, the wider one first: one depth and the widths reordered
C30_Witness ==
  /\ kpu_dimensions = <<<<1000>>, <<1200, 1500>>>>
  /\ Len(LoadedRooms) = 2
  /\ LoadedRooms[1]["width"].val = 1500
-----------------------------------------------------------------------------
(* Properties of process_gemini_json_for_spaceplanning *)

\* the calls that returned so far
ProcessCalls == 1..Len(runs)

\* the file holds a mapping with at least one room with a name, a width and a depth
HasWellTypedRoom(file) ==
  /\ file.kind = "document"
  /\ Has(file.content, "rooms")
  /\ \E i \in 1..Len(file.content["rooms"]) :
       {"name", "width", "depth"} \subseteq DOMAIN file.content["rooms"][i]

\* C21: for a design document with at least one well-typed room the run places
\* departments, places programs, builds the circulation and extrudes, and ends
\* with success = True and a non-empty departments list
C21_RunSucceeds ==
  \A i \in ProcessCalls :
    HasWellTypedRoom(json_file) =>
      /\ runs[i].results.success
      /\ runs[i].results.departments # <<>>

\* C22: every value process_gemini_json_for_spaceplanning returns has the keys
\* success, departments and design_parameters, and on success also circulation,
\* geometry_3d, site_outline and building_outline
C22_ResultKeys ==
  \A i \in ProcessCalls :
    /\ {"success", "departments", "design_parameters"} \subseteq DOMAIN runs[i].results
    /\ runs[i].results.success =>
         {"circulation", "geometry_3d", "site_outline", "building_outline"}
           \subseteq DOMAIN runs[i].results

C27_SeedAndWidthIgnored ==
  \A i \in ProcessCalls, j \in ProcessCalls :
    runs[i].args.circulation_factor = runs[j].args.circulation_factor =>
      /\ runs[i].results.success = runs[j].results.success
      /\ runs[i].results.departments = runs[j].results.departments
      /\ runs[i].results.circulation = runs[j].results.circulation
      /\ runs[i].results.design_parameters = runs[j].results.design_parameters

\* two successful calls with placed programs that differ in both arguments
C27_Witness ==
  /\ Len(runs) = 2
  /\ runs[1].args.circulation_factor = runs[2].args.circulation_factor
  /\ runs[1].args.design_seed # runs[2].args.design_seed
  /\ runs[1].args.acceptable_width # runs[2].args.acceptable_width
  /\ runs[1].results.success
  /\ Len(runs[1].results.departments) = 2
  /\ \A k \in 1..2 : Has(runs[1].results.departments[k].ProgramsInDept[1], "ProgramPolygon")

\* C28: the circulation_factor a call passes, 1.8 included, is the one in the
\* returned design_parameters and in every placed department
C28_FactorPassedIsUsed ==
  \A i \in ProcessCalls :
    runs[i].results.success =>
      /\ runs[i].results.design_parameters["circulation_factor"]
           = runs[i].args.circulation_factor
      /\ \A k \in 1..Len(runs[i].results.departments) :
           runs[i].results.departments[k].CirculationFactor = runs[i].args.circulation_factor
-----------------------------------------------------------------------------
(* Properties of the deployed layout pass *)

\* the circulation step of the deployed pass has returned
DeploymentCirculationBuilt == layout_pc \in {"circulation", "done"}

\* the end points of an edge, whichever geometry built it
EdgeStart(edge) ==
  IF "type" \in DOMAIN edge THEN [X |-> edge.start[1], Y |-> edge.start[2], Z |-> 0]
  ELSE edge.StartPoint
EdgeEnd(edge) ==
  IF "type" \in DOMAIN edge THEN [X |-> edge.end[1], Y |-> edge.end[2], Z |-> 0]
  ELSE edge.EndPoint

\* the position in the returned list of the edge of the pair i < j of n departments
EdgeIndex(i, j, n) == (i - 1) * n - ((i - 1) * i) \div 2 + (j - i)

\* C25: the deployed create_circulation_network returns one edge per unordered
\* pair of placed departments, n(n-1)/2 edges, and the end points of the edge
\* of a pair are the centroids of the two footprints
C25_OneEdgePerPair ==
  DeploymentCirculationBuilt =>
    /\ Len(circulation) = (Len(placed_departments) * (Len(placed_departments) - 1)) \div 2
    /\ \A i \in 1..Len(placed_departments), j \in 1..Len(placed_departments) :
         i < j =>
           /\ EdgeStart(circulation[EdgeIndex(i, j, Len(placed_departments))])
                = Centroid(FootprintOf(placed_departments[i]))
           /\ EdgeEnd(circulation[EdgeIndex(i, j, Len(placed_departments))])
                = Centroid(FootprintOf(placed_departments[j]))

\* the programs step of the deployed pass has returned
DeploymentProgramsPlaced == layout_pc \in {"programs", "circulation", "done"}

\* every program of the department has a positive width and depth
PositivePrograms(dept) ==
  \A k \in 1..Len(dept["ProgramsInDept"]) :
    /\ dept["ProgramsInDept"][k].Width.val > 0
    /\ dept["ProgramsInDept"][k].Depth.val > 0

\* C26: after the deployed place_programs_in_departments the footprints of two
\* distinct programs of one department do not overlap, for programs of any
\* positive width and depth
C26_ProgramsDisjoint ==
  DeploymentProgramsPlaced =>
    \A d \in 1..Len(placed_departments) :
      PositivePrograms(placed_departments[d]) =>
        \A k \in 1..Len(placed_departments[d]["ProgramsInDept"]),
           l \in 1..Len(placed_departments[d]["ProgramsInDept"]) :
          k # l =>
            ~Overlap(BoxOf(placed_departments[d]["ProgramsInDept"][k]["ProgramPolygon"].Points),
                     BoxOf(placed_departments[d]["ProgramsInDept"][l]["ProgramPolygon"].Points))

====
